---- MODULE Spec2Model ----
(***************************************************************************)
(* Model of the pachislot simulation engine of src/src/pachislo.ts: the    *)
(* game state machine (GameState), the lottery evaluator (Lottery), the    *)
(* command dispatch of Game.runStepWithCommand and the run() loop driven   *)
(* by CLIInput.                                                            *)
(*                                                                         *)
(* Numbers that the program keeps as floating point probabilities are      *)
(* modelled as exact rationals <<numerator, denominator>>; a call of       *)
(* Math.random() is an input drawn from the finite grid Draws of [0, 1).   *)
(***************************************************************************)
EXTENDS Integers, Sequences, FiniteSets, TLC

VARIABLES
    config,          \* Game.config: the BallsConfig
    probability,     \* Lottery.probability: the Probability
    state,           \* Game.state
    beforeState,     \* Game.beforeState
    isSlotSpinning,  \* Game.isSlotSpinning
    emitted,         \* notifications delivered to the UserOutput by the last call
    step,            \* the last call made on the game and how it ended
    notified,        \* a default notification has been delivered before the last call
    input,           \* the CLIInput: commands, currentIndex, startHoleProbability
    pc               \* position of Game.run(): "idle", "running", "returned", "raised"

vars == <<config, probability, state, beforeState, isSlotSpinning, emitted,
          step, notified, input, pc>>

----------------------------------------------------------------------------
(* Bounds of the model *)

MaxInitBalls == 1
MaxIncBalls == 1
MaxIncRush == 1
MaxBalls == 3
MaxRushBalls == 2
MaxRushDebt == 1
MaxN == 2
RandDen == 2
MaxLaunches == 3
MaxLength == 3
MaxSymbol == 3
StreamLen == 3
SlotRandDen == 3
MaxAwards == 3

----------------------------------------------------------------------------
(* Rationals *)

Less(a, b) == a[1] * b[2] < b[1] * a[2]

Mul(a, b) == <<a[1] * b[1], a[2] * b[2]>>

One == <<1, 1>>

\* the probabilities a configuration is built from: 0.0, 0.5 and 1.0
Probs == { <<0, 1>>, <<1, 2>>, <<1, 1>> }

Draws == { <<k, RandDen>> : k \in 0..(RandDen - 1) }

----------------------------------------------------------------------------
(* Errors: a function that throws returns a Throw value *)

Throw(name) == [type |-> "throw", error |-> name]

IsThrow(v) == v.type = "throw"

----------------------------------------------------------------------------
(* CONFIG MODULE *)

BallsConfig_validate(c) ==
    IF c.initBalls < 1 THEN <<"initial balls must be greater than 0">> ELSE <<>>

Zero == <<0, 1>>

\* x < 0 || x > 1
OutOfRange(x) == Less(x, Zero) \/ Less(One, x)

\* the validate methods return the errors of the ConfigError they throw, <<>>
\* when they return normally
SlotProbability_validate(sp) ==
    (IF OutOfRange(sp.win)
     THEN <<"win probability must be between 0.0 and 1.0">> ELSE <<>>)
    \o (IF OutOfRange(sp.fakeWin)
        THEN <<"fake_win probability must be between 0.0 and 1.0">> ELSE <<>>)
    \o (IF OutOfRange(sp.fakeLose)
        THEN <<"fake_lose probability must be between 0.0 and 1.0">> ELSE <<>>)

Probability_validate(p) ==
    SlotProbability_validate(p.normal) \o SlotProbability_validate(p.rush)
        \o SlotProbability_validate(p.rushContinue)

\* variant: the first validation that fails is the only one reported
Config_validate_firstOnly(c, p) ==
    IF BallsConfig_validate(c) # <<>> THEN BallsConfig_validate(c)
    ELSE Probability_validate(p)

Config_validate(c, p) == BallsConfig_validate(c) \o Probability_validate(p)

\* new Game(config, input, output): config.validate() is its first statement
Game_constructor(c, p) ==
    IF Config_validate(c, p) # <<>>
    THEN [type |-> "throw", error |-> "ConfigError", errors |-> Config_validate(c, p)]
    ELSE [type |-> "Game", state |-> [type |-> "Uninitialized"],
          isSlotSpinning |-> FALSE]

BallsConfigs ==
    { c \in [initBalls : 1..MaxInitBalls,
             incrementalBalls : 0..MaxIncBalls,
             incrementalRush : 0..MaxIncRush] : BallsConfig_validate(c) = <<>> }

----------------------------------------------------------------------------
(* GAME STATE MODULE *)

Uninitialized == [type |-> "Uninitialized"]

Normal(balls) == [type |-> "Normal", balls |-> balls]

Rush(balls, rushBalls, n) ==
    [type |-> "Rush", balls |-> balls, rushBalls |-> rushBalls, n |-> n]

Null == [type |-> "null"]

isUninitialized(s) == s.type = "Uninitialized"

isRush(s) == s.type = "Rush"

\* variant: a ball launched in Rush is also taken from balls
GameState_launchBall_spendsBalls(s) ==
    CASE s.type = "Uninitialized" -> Throw("UninitializedError")
      [] s.type = "Normal" ->
            LET newBalls == s.balls - 1
            IN  IF newBalls = 0 THEN Uninitialized ELSE Normal(newBalls)
      [] s.type = "Rush" ->
            LET newRushBalls == s.rushBalls - 1
            IN  IF newRushBalls = 0 THEN Normal(s.balls - 1)
                ELSE Rush(s.balls - 1, newRushBalls, s.n)

\* variant: the last ball of a rush ends the session
GameState_launchBall_rushEndsSession(s) ==
    CASE s.type = "Uninitialized" -> Throw("UninitializedError")
      [] s.type = "Normal" ->
            LET newBalls == s.balls - 1
            IN  IF newBalls = 0 THEN Uninitialized ELSE Normal(newBalls)
      [] s.type = "Rush" ->
            LET newRushBalls == s.rushBalls - 1
            IN  IF newRushBalls = 0 THEN Uninitialized
                ELSE Rush(s.balls, newRushBalls, s.n)

GameState_launchBall(s) ==
    CASE s.type = "Uninitialized" -> Throw("UninitializedError")
      [] s.type = "Normal" ->
            LET newBalls == s.balls - 1
            IN  IF newBalls = 0 THEN Uninitialized ELSE Normal(newBalls)
      [] s.type = "Rush" ->
            LET newRushBalls == s.rushBalls - 1
            IN  IF newRushBalls = 0 THEN Normal(s.balls)
                ELSE Rush(s.balls, newRushBalls, s.n)

GameState_init(s, c) ==
    IF isUninitialized(s) THEN Normal(c.initBalls)
    ELSE Throw("AlreadyStartedError")

\* variant: awarding balls in Rush ends the rush
GameState_incrementBalls_endsRush(s, c) ==
    CASE s.type = "Uninitialized" ->
            Throw("Error: Cannot increment balls in uninitialized state")
      [] OTHER -> Normal(s.balls + c.incrementalBalls)

GameState_incrementBalls(s, c) ==
    CASE s.type = "Uninitialized" ->
            Throw("Error: Cannot increment balls in uninitialized state")
      [] s.type = "Normal" -> Normal(s.balls + c.incrementalBalls)
      [] s.type = "Rush" ->
            Rush(s.balls + c.incrementalBalls, s.rushBalls, s.n)

\* variant: continuing a rush resets the pool instead of adding to it
GameState_triggerRush_resetsPool(s, c) ==
    CASE s.type = "Uninitialized" ->
            Throw("Error: Cannot trigger rush in uninitialized state")
      [] s.type = "Normal" ->
            Rush(s.balls + c.incrementalBalls, c.incrementalRush, 1)
      [] s.type = "Rush" ->
            Rush(s.balls + c.incrementalBalls, c.incrementalRush, s.n + 1)

\* variant: a rush can be triggered without a session
GameState_triggerRush_fromAnywhere(s, c) ==
    CASE s.type = "Uninitialized" ->
            Rush(c.incrementalBalls, c.incrementalRush, 1)
      [] s.type = "Normal" ->
            Rush(s.balls + c.incrementalBalls, c.incrementalRush, 1)
      [] s.type = "Rush" ->
            Rush(s.balls + c.incrementalBalls,
                 s.rushBalls + c.incrementalRush, s.n + 1)

\* variant: continuing a rush does not count the round
GameState_triggerRush_keepsRound(s, c) ==
    CASE s.type = "Uninitialized" ->
            Throw("Error: Cannot trigger rush in uninitialized state")
      [] s.type = "Normal" ->
            Rush(s.balls + c.incrementalBalls, c.incrementalRush, 1)
      [] s.type = "Rush" ->
            Rush(s.balls + c.incrementalBalls,
                 s.rushBalls + c.incrementalRush, s.n)

GameState_triggerRush(s, c) ==
    CASE s.type = "Uninitialized" ->
            Throw("Error: Cannot trigger rush in uninitialized state")
      [] s.type = "Normal" ->
            Rush(s.balls + c.incrementalBalls, c.incrementalRush, 1)
      [] s.type = "Rush" ->
            Rush(s.balls + c.incrementalBalls,
                 s.rushBalls + c.incrementalRush, s.n + 1)

Transition(before, after) == [before |-> before, after |-> after]

----------------------------------------------------------------------------
(* LOTTERY MODULE *)

LotteryResult_Win(winType) == [type |-> "Win", winType |-> winType]

LotteryResult_Lose(loseType) == [type |-> "Lose", loseType |-> loseType]

isWin(result) == result.type = "Win"

SlotProbability(win, fakeWin, fakeLose) ==
    [win |-> win, fakeWin |-> fakeWin, fakeLose |-> fakeLose]

RECURSIVE Pow(_, _)
Pow(b, e) == IF e <= 0 THEN 1 ELSE b * Pow(b, e - 1)

\* The continuation functions a Probability is built with: the decay of
\* CONFIG_EXAMPLE, 0.6^(n-1), the constant 2 and the constant -1.
FnChoices == {"decay", "double", "negate"}

rushContinueFn(f, n) ==
    CASE f = "decay" -> <<Pow(3, n - 1), Pow(5, n - 1)>>
      [] f = "double" -> <<2, 1>>
      [] f = "negate" -> <<0 - 1, 1>>

\* variant: the first draw wins when it is at most win
lottery_inclusive(slotProbability, d1, d2) ==
    IF ~Less(slotProbability.win, d1)
    THEN IF Less(d2, slotProbability.fakeWin)
         THEN LotteryResult_Win("FakeWin")
         ELSE LotteryResult_Win("Default")
    ELSE IF Less(d2, slotProbability.fakeLose)
         THEN LotteryResult_Lose("FakeLose")
         ELSE LotteryResult_Lose("Default")

\* Lottery.lottery: d1 and d2 are the two values of Math.random() it reads
lottery(slotProbability, d1, d2) ==
    IF Less(d1, slotProbability.win)
    THEN IF Less(d2, slotProbability.fakeWin)
         THEN LotteryResult_Win("FakeWin")
         ELSE LotteryResult_Win("Default")
    ELSE IF Less(d2, slotProbability.fakeLose)
         THEN LotteryResult_Lose("FakeLose")
         ELSE LotteryResult_Lose("Default")

lotteryNormal(p, d1, d2) == lottery(p.normal, d1, d2)

lotteryRush(p, d1, d2) == lottery(p.rush, d1, d2)

\* variant: an adjusted probability of exactly 1 is refused as well
lotteryRushContinue_failsAtOne(p, n, d1, d2) ==
    LET probabilityValues == p.rushContinue
        adjustedWin == Mul(probabilityValues.win, rushContinueFn(p.rushContinueFn, n))
    IN  IF ~Less(adjustedWin, One) THEN Throw("ProbabilityError")
        ELSE lottery(SlotProbability(adjustedWin, probabilityValues.fakeWin,
                                     probabilityValues.fakeLose), d1, d2)

lotteryRushContinue(p, n, d1, d2) ==
    LET probabilityValues == p.rushContinue
        adjustedWin == Mul(probabilityValues.win, rushContinueFn(p.rushContinueFn, n))
    IN  IF Less(One, adjustedWin) THEN Throw("ProbabilityError")
        ELSE lottery(SlotProbability(adjustedWin, probabilityValues.fakeWin,
                                     probabilityValues.fakeLose), d1, d2)

----------------------------------------------------------------------------
(* SLOT MODULE *)

\* Math.floor(Math.random() * k) for the draw d
FloorMul(d, k) == (d[1] * k) \div d[2]

\* The k-th value (k = 1, 2, ...) of Math.random() read from the stream rnd,
\* a non-empty sequence of draws that is read cyclically
At(rnd, k) == rnd[((k - 1) % Len(rnd)) + 1]

Swap(array, i, j) == [array EXCEPT ![i] = array[j], ![j] = array[i]]

\* shuffleArray: the loop from index i (1-based) down to 2, reading the
\* stream from position k
RECURSIVE shuffleFrom(_, _, _, _)
shuffleFrom(array, i, rnd, k) ==
    IF i <= 1 THEN array
    ELSE shuffleFrom(Swap(array, i, FloorMul(At(rnd, k), i) + 1), i - 1, rnd, k + 1)

shuffleArray(array, rnd, k) == shuffleFrom(array, Len(array), rnd, k)

\* number of draws shuffleArray reads
shuffleDraws(array) == IF Len(array) = 0 THEN 0 ELSE Len(array) - 1

\* new SlotProducer(length, choices)
SlotProducer_constructor(length, choices) ==
    IF Len(choices) < 2 THEN Throw("Error")
    ELSE [type |-> "SlotProducer", length |-> length, choices |-> choices]

\* variant: a symbol is picked for every position
produceWin_perPosition(length, choices, rnd, k) ==
    [i \in 1..length |-> choices[FloorMul(At(rnd, k + i - 1), Len(choices)) + 1]]

produceWin(length, choices, rnd, k) ==
    LET choice == choices[FloorMul(At(rnd, k), Len(choices)) + 1]
    IN  [i \in 1..length |-> choice]

\* variant: the first group may fill every position
produceLose_anyCount(length, choices, rnd, k) ==
    LET refChoices == shuffleArray(choices, rnd, k)
        k1 == k + shuffleDraws(choices)
        partition == FloorMul(At(rnd, k1), Len(refChoices) - 1) + 1
        choices1 == SubSeq(refChoices, 1, partition)
        choices2 == SubSeq(refChoices, partition + 1, Len(refChoices))
        cnt1 == FloorMul(At(rnd, k1 + 1), length) + 1
        cnt2 == length - cnt1
        k2 == k1 + 2
        result1 == [i \in 1..cnt1 |->
                      choices1[FloorMul(At(rnd, k2 + i - 1), Len(choices1)) + 1]]
        k3 == k2 + Len(result1)
        result2 == [i \in 1..cnt2 |->
                      choices2[FloorMul(At(rnd, k3 + i - 1), Len(choices2)) + 1]]
        k4 == k3 + Len(result2)
    IN  shuffleArray(result1 \o result2, rnd, k4)

\* produceLose up to the distribution of length: the two groups of symbols,
\* the two counts and the position of the next draw
produceLose_cut(length, choices, rnd, k) ==
    LET refChoices == shuffleArray(choices, rnd, k)
        k1 == k + shuffleDraws(choices)
        partition == FloorMul(At(rnd, k1), Len(refChoices) - 1) + 1
        cnt1 == FloorMul(At(rnd, k1 + 1), length - 1) + 1
    IN  [choices1 |-> SubSeq(refChoices, 1, partition),
         choices2 |-> SubSeq(refChoices, partition + 1, Len(refChoices)),
         cnt1 |-> cnt1, cnt2 |-> length - cnt1, k |-> k1 + 2]

\* cnt pushes of a symbol sampled from group, reading the stream from k
produceLose_sample(group, cnt, rnd, k) ==
    [i \in 1..cnt |-> group[FloorMul(At(rnd, k + i - 1), Len(group)) + 1]]

produceLose_fill(cut, rnd) ==
    LET result1 == produceLose_sample(cut.choices1, cut.cnt1, rnd, cut.k)
        result2 == produceLose_sample(cut.choices2, cut.cnt2, rnd, cut.k + Len(result1))
    IN  shuffleArray(result1 \o result2, rnd, cut.k + Len(result1) + Len(result2))

produceLose(length, choices, rnd, k) ==
    produceLose_fill(produceLose_cut(length, choices, rnd, k), rnd)

\* variant: the middle index is shifted by 0 or 1
produceFakeLose_noShift(choices, rnd, k) ==
    LET choiceIndex == FloorMul(At(rnd, k), Len(choices))
        shifted == (choiceIndex
                    + (IF Less(At(rnd, k + 1), <<1, 2>>) THEN 0 ELSE 1)
                    + Len(choices)) % Len(choices)
    IN  <<choices[choiceIndex + 1], choices[shifted + 1], choices[choiceIndex + 1]>>

produceFakeLose(choices, rnd, k) ==
    LET choiceIndex == FloorMul(At(rnd, k), Len(choices))
        shifted == (choiceIndex
                    + (IF Less(At(rnd, k + 1), <<1, 2>>) THEN -1 ELSE 1)
                    + Len(choices)) % Len(choices)
    IN  <<choices[choiceIndex + 1], choices[shifted + 1], choices[choiceIndex + 1]>>

\* SlotOutput: <<primary reel, bonus reel>>; the bonus reel is <<reel>> when
\* it is present and NoReel when it is null
NoReel == <<>>

Reel(reel) == <<reel>>

\* the number of Math.random() values produceFakeLose reads
fakeLoseDraws == 2

\* variant: a fake win shows no bonus reel
produce_noBonus(lotteryResult, length, choices, rnd) ==
    CASE lotteryResult.type = "Win" /\ lotteryResult.winType = "Default" ->
            <<produceWin(length, choices, rnd, 1), NoReel>>
      [] lotteryResult.type = "Win" /\ lotteryResult.winType = "FakeWin" ->
            <<produceFakeLose(choices, rnd, 1), NoReel>>
      [] lotteryResult.type = "Lose" /\ lotteryResult.loseType = "Default" ->
            <<produceLose(length, choices, rnd, 1), NoReel>>
      [] lotteryResult.type = "Lose" /\ lotteryResult.loseType = "FakeLose" ->
            <<produceFakeLose(choices, rnd, 1), NoReel>>

produce(lotteryResult, length, choices, rnd) ==
    CASE lotteryResult.type = "Win" /\ lotteryResult.winType = "Default" ->
            <<produceWin(length, choices, rnd, 1), NoReel>>
      [] lotteryResult.type = "Win" /\ lotteryResult.winType = "FakeWin" ->
            <<produceFakeLose(choices, rnd, 1),
              Reel(produceWin(length, choices, rnd, 1 + fakeLoseDraws))>>
      [] lotteryResult.type = "Lose" /\ lotteryResult.loseType = "Default" ->
            <<produceLose(length, choices, rnd, 1), NoReel>>
      [] lotteryResult.type = "Lose" /\ lotteryResult.loseType = "FakeLose" ->
            <<produceFakeLose(choices, rnd, 1), NoReel>>

----------------------------------------------------------------------------
(* COMMAND MODULE *)

NullCommand == [type |-> "null"]

StringCommand(value) == [type |-> "string", value |-> value]

\* Command.FinishGame is the string "FinishGame"
Command_FinishGame == StringCommand("FinishGame")

\* a FinishGameCommand object { type: "FinishGame" }
FinishGameObject == [type |-> "FinishGame"]

Control(command) == [type |-> "Control", command |-> command]

LaunchBall == [kind |-> "LaunchBall"]

CauseLottery == [kind |-> "CauseLottery"]

StartGame == [kind |-> "StartGame"]

FinishGameCommandImpl == [kind |-> "FinishGame"]

LaunchBallFlow(isLottery) == [kind |-> "LaunchBallFlow", isLottery |-> isLottery]

\* LaunchBallFlowProducer.produce: d is the value of Math.random() it reads
LaunchBallFlowProducer_produce(startHoleProbability, d) ==
    LaunchBallFlow(Less(d, startHoleProbability))

GameCommands ==
    {LaunchBall, CauseLottery, StartGame, FinishGameCommandImpl}
        \cup {LaunchBallFlow(b) : b \in BOOLEAN}

----------------------------------------------------------------------------
(* GAME MODULE *)

\* new SlotProducer(3, [1, 2, 3, 4, 5, 6, 7, 8, 9])
SlotLength == 3

SlotChoices == <<1, 2, 3, 4, 5, 6, 7, 8, 9>>

LotteryResults ==
    {LotteryResult_Win("Default"), LotteryResult_Win("FakeWin"),
     LotteryResult_Lose("Default"), LotteryResult_Lose("FakeLose")}

\* The reels shown never influence the game, so the game reads them from one
\* stream of Math.random() values; every lottery draw ranges over Draws.
ReelStream == << <<0, 1>> >>

\* the reels of each lottery result on ReelStream, computed once
SlotTable ==
    [result \in LotteryResults |-> produce(result, SlotLength, SlotChoices, ReelStream)]

\* this.slotProducer.produce(result), reading the stream rnd
slotProducer_produce(result, rnd) ==
    IF rnd = ReelStream THEN SlotTable[result]
    ELSE produce(result, SlotLength, SlotChoices, rnd)

\* The game while one call runs: g.out collects the notifications delivered
\* to the output, g.thrown is the error being propagated ("none" if none).
raise(g, error) == [g EXCEPT !.thrown = error]

notify(g, notification) == [g EXCEPT !.out = Append(@, notification)]

\* this.state = r, where evaluating r may throw
assign(g, r) == IF IsThrow(r) THEN raise(g, r.error) ELSE [g EXCEPT !.state = r]

\* variant: the flag is never written
setSlotSpinning_ignored(g, spinning) == g

setSlotSpinning(g, spinning) == [g EXCEPT !.isSlotSpinning = spinning]

\* variant: start() begins a new session whatever the state is
Game_start_restarts(g, c) ==
    notify([g EXCEPT !.state = Normal(c.initBalls)],
           [kind |-> "startGame", state |-> Normal(c.initBalls)])

Game_start(g, c) ==
    LET g1 == assign(g, GameState_init(g.state, c))
    IN  IF g1.thrown # "none" THEN g1
        ELSE notify(g1, [kind |-> "startGame", state |-> g1.state])

\* variant: finish() resets the state before it notifies
Game_finish_resetsFirst(g) ==
    IF isUninitialized(g.state) THEN raise(g, "UninitializedError")
    ELSE notify([g EXCEPT !.state = Uninitialized],
                [kind |-> "finishGame", state |-> Uninitialized])

\* variant: finish() also stops the reel
Game_finish_stopsSpin(g) ==
    IF isUninitialized(g.state) THEN raise(g, "UninitializedError")
    ELSE [notify(g, [kind |-> "finishGame", state |-> g.state])
            EXCEPT !.state = Uninitialized, !.isSlotSpinning = FALSE]

Game_finish(g) ==
    IF isUninitialized(g.state) THEN raise(g, "UninitializedError")
    ELSE [notify(g, [kind |-> "finishGame", state |-> g.state])
            EXCEPT !.state = Uninitialized]

\* variant: the state is examined before the spinning guard
Game_launchBall_stateFirst(g) ==
    IF isUninitialized(g.state) THEN raise(g, "UninitializedError")
    ELSE IF g.isSlotSpinning
    THEN raise(g, "Error: Cannot launch ball while slot is spinning")
    ELSE assign(g, GameState_launchBall(g.state))

Game_launchBall(g) ==
    IF g.isSlotSpinning
    THEN raise(g, "Error: Cannot launch ball while slot is spinning")
    ELSE assign(g, GameState_launchBall(g.state))

\* Game.causeLottery, the end of the try block: a continuation Win extends
\* the rush, a continuation Lose awards balls
\* variant: a continuation Lose ends the rush
causeLottery_award_loseEndsRush(g, continueResult, c) ==
    IF isWin(continueResult)
    THEN assign(g, GameState_triggerRush(g.state, c))
    ELSE [g EXCEPT !.state = Normal(g.state.balls + c.incrementalBalls)]

causeLottery_award(g, continueResult, c) ==
    IF isWin(continueResult)
    THEN assign(g, GameState_triggerRush(g.state, c))
    ELSE assign(g, GameState_incrementBalls(g.state, c))

\* Game.causeLottery, the try block once lotteryRushContinue has returned or
\* thrown: the catch clause swallows every error
\* variant: the ProbabilityError of the continuation draw is not caught
causeLottery_continue_rethrows(g, continueResult, c, rnd) ==
    IF IsThrow(continueResult) THEN raise(g, continueResult.error)
    ELSE causeLottery_award(
             notify(g, [kind |-> "lotteryRushContinue",
                        result |-> continueResult,
                        slot |-> slotProducer_produce(continueResult, rnd.cslot)]),
             continueResult, c)

causeLottery_continue(g, continueResult, c, rnd) ==
    IF IsThrow(continueResult) THEN g
    ELSE raise(causeLottery_award(
                   notify(g, [kind |-> "lotteryRushContinue",
                              result |-> continueResult,
                              slot |-> slotProducer_produce(continueResult, rnd.cslot)]),
                   continueResult, c),
               "none")

\* Game.causeLottery after the first lottery has been notified
\* variant: a losing rush draw ends the rush
causeLottery_resolve_loseEndsRush(g, result, c, p, rnd) ==
    IF ~isWin(result)
    THEN (IF g.state.type = "Rush" THEN [g EXCEPT !.state = Normal(g.state.balls)]
          ELSE g)
    ELSE IF g.state.type # "Rush"
    THEN assign(g, GameState_triggerRush(g.state, c))
    ELSE causeLottery_continue(
             g, lotteryRushContinue(p, g.state.n, rnd.c1, rnd.c2), c, rnd)

causeLottery_resolve(g, result, c, p, rnd) ==
    IF ~isWin(result) THEN g
    ELSE IF g.state.type # "Rush"
    THEN assign(g, GameState_triggerRush(g.state, c))
    ELSE causeLottery_continue(
             g, lotteryRushContinue(p, g.state.n, rnd.c1, rnd.c2), c, rnd)

\* variant: the first lottery is always announced as a normal lottery
Game_causeLottery_alwaysNormal(g, c, p, rnd) ==
    LET inRush == isRush(g.state)
        result == IF inRush THEN lotteryRush(p, rnd.d1, rnd.d2)
                  ELSE lotteryNormal(p, rnd.d1, rnd.d2)
    IN  causeLottery_resolve(
            notify(setSlotSpinning(g, TRUE),
                   [kind |-> "lotteryNormal",
                    result |-> result,
                    slot |-> slotProducer_produce(result, rnd.slot)]),
            result, c, p, rnd)

\* rnd holds the values of Math.random() the call reads: d1, d2 for the first
\* lottery, slot for its reel, c1, c2 for the continuation lottery, cslot for
\* its reel.
Game_causeLottery(g, c, p, rnd) ==
    LET inRush == isRush(g.state)
        result == IF inRush THEN lotteryRush(p, rnd.d1, rnd.d2)
                  ELSE lotteryNormal(p, rnd.d1, rnd.d2)
    IN  causeLottery_resolve(
            notify(setSlotSpinning(g, TRUE),
                   [kind |-> IF inRush THEN "lotteryRush" ELSE "lotteryNormal",
                    result |-> result,
                    slot |-> slotProducer_produce(result, rnd.slot)]),
            result, c, p, rnd)

\* GameCommand.execute
\* variant: LaunchBallFlow draws its lottery before it launches the ball
execute_lotteryFirst(command, g, c, p, rnd) ==
    CASE command.kind = "LaunchBall" -> Game_launchBall(g)
      [] command.kind = "CauseLottery" -> Game_causeLottery(g, c, p, rnd)
      [] command.kind = "StartGame" -> Game_start(g, c)
      [] command.kind = "FinishGame" -> Game_finish(g)
      [] command.kind = "LaunchBallFlow" ->
            LET g1 == IF command.isLottery THEN Game_causeLottery(g, c, p, rnd)
                      ELSE g
            IN  IF g1.thrown # "none" THEN g1 ELSE Game_launchBall(g1)

execute(command, g, c, p, rnd) ==
    CASE command.kind = "LaunchBall" -> Game_launchBall(g)
      [] command.kind = "CauseLottery" -> Game_causeLottery(g, c, p, rnd)
      [] command.kind = "StartGame" -> Game_start(g, c)
      [] command.kind = "FinishGame" -> Game_finish(g)
      [] command.kind = "LaunchBallFlow" ->
            LET g1 == Game_launchBall(g)
            IN  IF g1.thrown # "none" THEN g1
                ELSE IF command.isLottery THEN Game_causeLottery(g1, c, p, rnd)
                ELSE g1

\* the first test of runStepWithCommand: the terminate sentinel
\* variant: only the object form is taken for the terminate sentinel
isTerminate_objectOnly(command) == command.type = "FinishGame"

isTerminate(command) ==
    \/ command = Command_FinishGame
    \/ command.type = "FinishGame"
    \/ (command.type = "string" /\ command.value = "FinishGame")

\* the command a string mnemonic stands for (the switch of runStepWithCommand)
fromString(value) ==
    CASE value = "LaunchBall" -> LaunchBall
      [] value = "CauseLottery" -> CauseLottery
      [] value = "StartGame" -> StartGame
      [] value = "FinishGame" -> FinishGameCommandImpl
      [] OTHER -> [kind |-> "Unknown"]

\* variant: beforeState is not refreshed at the start of a step
saveBeforeState_stale(g) == g

\* this.beforeState = { ...this.state }
saveBeforeState(g) == [g EXCEPT !.beforeState = g.state]

\* the end of runStepWithCommand, g being the game as execute left it
runStep_finish(g) ==
    IF g.thrown # "none" THEN [g EXCEPT !.result = "throw"]
    ELSE [notify(g, [kind |-> "default",
                     transition |-> Transition(g.beforeState, g.state)])
            EXCEPT !.result = "continue"]

\* !command: null and the empty string
isFalsy(command) ==
    command.type = "null" \/ (command.type = "string" /\ command.value = "")

\* variant: a step without a command still reports a transition
runStep_dispatch_nullNotifies(g, command, c, p, rnd) ==
    IF isTerminate(command) THEN [g EXCEPT !.result = "break"]
    ELSE IF isFalsy(command) THEN runStep_finish(g)
    ELSE LET controlCommand ==
                IF command.type = "Control" THEN command.command
                ELSE fromString(command.value)
         IN  IF controlCommand.kind # "Unknown"
             THEN runStep_finish(execute(controlCommand, g, c, p, rnd))
             ELSE [raise(g, "Error: Unknown command") EXCEPT !.result = "throw"]

\* variant: an unknown mnemonic is skipped
runStep_dispatch_unknownSkipped(g, command, c, p, rnd) ==
    IF isTerminate(command) THEN [g EXCEPT !.result = "break"]
    ELSE IF isFalsy(command) THEN [g EXCEPT !.result = "continue"]
    ELSE LET controlCommand ==
                IF command.type = "Control" THEN command.command
                ELSE fromString(command.value)
         IN  IF controlCommand.kind # "Unknown"
             THEN runStep_finish(execute(controlCommand, g, c, p, rnd))
             ELSE [g EXCEPT !.result = "continue"]

\* runStepWithCommand once beforeState is saved
runStep_dispatch(g, command, c, p, rnd) ==
    IF isTerminate(command) THEN [g EXCEPT !.result = "break"]
    ELSE IF isFalsy(command) THEN [g EXCEPT !.result = "continue"]
    ELSE LET controlCommand ==
                IF command.type = "Control" THEN command.command
                ELSE fromString(command.value)
         IN  IF controlCommand.kind # "Unknown"
             THEN runStep_finish(execute(controlCommand, g, c, p, rnd))
             ELSE [raise(g, "Error: Unknown command") EXCEPT !.result = "throw"]

\* Game.runStepWithCommand on the game g0 (with g0.beforeState); the
\* StepResult is the field result: "continue", "break", or "throw" when an
\* error propagates.
runStepWithCommand(g0, command, c, p, rnd) ==
    runStep_dispatch(saveBeforeState(g0), command, c, p, rnd)

----------------------------------------------------------------------------
(* EXAMPLE CLI IMPLEMENTATION *)

\* CLIInput.waitForInput: d is the value of Math.random() read if a
\* LaunchBallFlow is produced.  Returns the command and the new currentIndex.
RECURSIVE CLIInput_waitForInput(_, _, _, _)
CLIInput_waitForInput(cmds, index, startHoleProbability, d) ==
    IF index >= Len(cmds)
    THEN [command |-> Command_FinishGame, currentIndex |-> index]
    ELSE LET cmd == cmds[index + 1]
             next == index + 1
         IN  CASE cmd = "s" -> [command |-> Control(StartGame), currentIndex |-> next]
               [] cmd \in {"l", ""} ->
                    [command |-> Control(LaunchBallFlowProducer_produce(startHoleProbability, d)),
                     currentIndex |-> next]
               [] cmd = "q" -> [command |-> Control(FinishGameCommandImpl), currentIndex |-> next]
               [] cmd = "q!" -> [command |-> Command_FinishGame, currentIndex |-> next]
               [] OTHER -> CLIInput_waitForInput(cmds, next, startHoleProbability, d)

----------------------------------------------------------------------------
(* The inputs of the model *)

\* a SlotProbability under which every outcome of a lottery can be drawn
MixedProbability == SlotProbability(<<1, 2>>, <<1, 2>>, <<1, 2>>)

\* a SlotProbability whose lottery is always won
SureProbability == SlotProbability(<<1, 1>>, <<1, 2>>, <<1, 2>>)

\* The Probability of the game: with rushContinue.win = 1 and the constant 2
\* the adjusted probability exceeds 1, with 0.5 it is exactly 1.
Probabilities ==
    { [normal |-> MixedProbability, rush |-> MixedProbability,
       rushContinue |-> rc.p, rushContinueFn |-> rc.f] :
      rc \in { [p |-> MixedProbability, f |-> "decay"],
               [p |-> MixedProbability, f |-> "double"],
               [p |-> SureProbability, f |-> "double"] } }

RandomInputs ==
    [d1 : Draws, d2 : Draws, slot : {ReelStream},
     c1 : Draws, c2 : Draws, cslot : {ReelStream}]

NoRandom == CHOOSE rnd \in RandomInputs : TRUE

Commands ==
    {NullCommand, Command_FinishGame, FinishGameObject}
        \cup {Control(c) : c \in GameCommands}
        \cup {StringCommand(v) : v \in {"StartGame", "LaunchBall", "CauseLottery", "Bogus", ""}}

\* a command whose execution may read Math.random()
drawsLottery(command) ==
    \/ command.type = "Control" /\ command.command.kind = "CauseLottery"
    \/ command.type = "Control" /\ command.command.kind = "LaunchBallFlow"
                                /\ command.command.isLottery
    \/ command.type = "string" /\ command.value = "CauseLottery"

\* The draws a command may read in the game state s: none without a lottery
\* or when LaunchBallFlow throws before its lottery, and continuation draws
\* only after a winning draw in Rush (draws that are not read are fixed).
RandomInputsOf(command, s, p) ==
    IF ~drawsLottery(command) THEN {NoRandom}
    ELSE IF /\ command.type = "Control" /\ command.command.kind = "LaunchBallFlow"
            /\ (isSlotSpinning \/ isUninitialized(s))
    THEN {NoRandom}
    ELSE { rnd \in RandomInputs :
             \/ isRush(s) /\ Less(rnd.d1, p.rush.win)
             \/ /\ rnd.c1 = NoRandom.c1 /\ rnd.c2 = NoRandom.c2
                /\ rnd.cslot = NoRandom.cslot }

\* the counters of a game state stay within the bounds of the model
InBounds(s) ==
    CASE s.type = "Normal" -> s.balls <= MaxBalls
      [] s.type = "Rush" -> /\ s.balls <= MaxBalls
                            /\ s.rushBalls <= MaxRushBalls
                            /\ s.rushBalls >= 0 - MaxRushDebt
                            /\ s.n <= MaxN
      [] OTHER -> TRUE

NoStep ==
    [op |-> "none", command |-> NullCommand, result |-> "none", error |-> "none",
     stateAtCall |-> Uninitialized, spinningAtCall |-> FALSE]

NoInput == [commands |-> <<>>, currentIndex |-> 0, startHoleProbability |-> <<0, 1>>]

HasDefault(out) == \E i \in 1..Len(out) : out[i].kind = "default"

\* the Game object as the operators above see it
TheGame ==
    [beforeState |-> beforeState, state |-> state, isSlotSpinning |-> isSlotSpinning,
     out |-> <<>>, thrown |-> "none", result |-> "none"]

----------------------------------------------------------------------------
(* The game driven command by command (WasmGame.run_step_with_command), with
   the presentation layer calling setSlotSpinning *)

Init ==
    /\ config \in BallsConfigs
    /\ probability \in Probabilities
    /\ state = Uninitialized
    /\ beforeState = Null
    /\ isSlotSpinning = FALSE
    /\ emitted = <<>>
    /\ step = NoStep
    /\ notified = FALSE
    /\ input = NoInput
    /\ pc = "idle"

\* the effect of one call of runStepWithCommand that ended as g
Effect(g, command) ==
    /\ beforeState' = g.beforeState
    /\ state' = g.state
    /\ isSlotSpinning' = g.isSlotSpinning
    /\ emitted' = g.out
    /\ step' = [op |-> "runStepWithCommand", command |-> command,
                result |-> g.result, error |-> g.thrown,
                stateAtCall |-> state, spinningAtCall |-> isSlotSpinning]
    /\ notified' = (notified \/ HasDefault(emitted))

RunStepWithCommand ==
    /\ pc = "idle"
    /\ \E command \in Commands : \E rnd \in RandomInputsOf(command, state, probability) :
         LET g == runStepWithCommand(TheGame, command, config, probability, rnd)
         IN  /\ InBounds(g.state)
             /\ Effect(g, command)
    /\ UNCHANGED <<config, probability, input, pc>>

SetSlotSpinning ==
    /\ pc = "idle"
    /\ \E spinning \in BOOLEAN :
         /\ isSlotSpinning' = setSlotSpinning(TheGame, spinning).isSlotSpinning
         /\ step' = [op |-> "setSlotSpinning", command |-> NullCommand,
                     result |-> "none", error |-> "none",
                     stateAtCall |-> state, spinningAtCall |-> isSlotSpinning]
    /\ emitted' = <<>>
    /\ notified' = (notified \/ HasDefault(emitted))
    /\ UNCHANGED <<config, probability, state, beforeState, input, pc>>

Next == RunStepWithCommand \/ SetSlotSpinning

Spec == Init /\ [][Next]_vars

----------------------------------------------------------------------------
(* Game.run() driven by a CLIInput (runDemo, the README example) *)

Repeat(x, k) == [i \in 1..k |-> x]

\* the command lists [s, l, ..., l, q]
DemoLists == { <<"s">> \o Repeat("l", k) \o <<"q">> : k \in 0..MaxLaunches }

CountOf(cmds, x) == Cardinality({ i \in 1..Len(cmds) : cmds[i] = x })

RunBallsConfigs ==
    { c \in [initBalls : 1..(MaxLaunches + 1),
             incrementalBalls : 0..MaxIncBalls,
             incrementalRush : 0..MaxIncRush] : BallsConfig_validate(c) = <<>> }

InitRun ==
    /\ config \in RunBallsConfigs
    /\ probability \in Probabilities
    /\ state = Uninitialized
    /\ beforeState = Null
    /\ isSlotSpinning = FALSE
    /\ emitted = <<>>
    /\ step = NoStep
    /\ notified = FALSE
    /\ input \in [commands : DemoLists, currentIndex : {0}, startHoleProbability : Probs]
    /\ pc = "running"

\* one iteration of the loop of run(): runStep()
RunStep ==
    /\ pc = "running"
    /\ \E d \in Draws :
         LET w == CLIInput_waitForInput(input.commands, input.currentIndex,
                                        input.startHoleProbability, d)
         IN  \E rnd \in RandomInputsOf(w.command, state, probability) :
               LET g == runStepWithCommand(TheGame, w.command, config, probability, rnd)
               IN  /\ Effect(g, w.command)
                   /\ input' = [input EXCEPT !.currentIndex = w.currentIndex]
                   /\ pc' = CASE g.result = "break" -> "returned"
                              [] g.result = "throw" -> "raised"
                              [] OTHER -> "running"
    /\ UNCHANGED <<config, probability>>

NextRun == RunStep

SpecRun == InitRun /\ [][NextRun]_vars

----------------------------------------------------------------------------
(* The pure transition functions of GameState applied to arbitrary states *)

GameStates ==
    {Uninitialized}
        \cup { Normal(b) : b \in 1..MaxBalls }
        \cup { Rush(b, rb, n) : b \in 1..MaxBalls, rb \in 0..MaxRushBalls, n \in 1..MaxN }

InitGameState ==
    /\ config \in BallsConfigs
    /\ probability \in {[normal |-> MixedProbability, rush |-> MixedProbability,
                         rushContinue |-> MixedProbability, rushContinueFn |-> "decay"]}
    /\ state \in GameStates
    /\ beforeState = Null
    /\ isSlotSpinning = FALSE
    /\ emitted = <<>>
    /\ step = NoStep
    /\ notified = FALSE
    /\ input = NoInput
    /\ pc = "pure"

\* state' is the value the function returns; a throw leaves it as it was
Applied(name, r) ==
    /\ pc = "pure"
    /\ state' = IF IsThrow(r) THEN state ELSE r
    /\ InBounds(state')
    /\ step' = [op |-> name, command |-> NullCommand,
                result |-> IF IsThrow(r) THEN "throw" ELSE "return",
                error |-> IF IsThrow(r) THEN r.error ELSE "none",
                stateAtCall |-> state, spinningAtCall |-> isSlotSpinning]
    /\ UNCHANGED <<config, probability, beforeState, isSlotSpinning, emitted,
                   notified, input, pc>>

ApplyLaunchBall == Applied("GameState.launchBall", GameState_launchBall(state))

ApplyInit == Applied("GameState.init", GameState_init(state, config))

ApplyIncrementBalls ==
    Applied("GameState.incrementBalls", GameState_incrementBalls(state, config))

ApplyTriggerRush ==
    Applied("GameState.triggerRush", GameState_triggerRush(state, config))

NextGameState ==
    ApplyLaunchBall \/ ApplyInit \/ ApplyIncrementBalls \/ ApplyTriggerRush

SpecGameState == InitGameState /\ [][NextGameState]_vars

----------------------------------------------------------------------------
(* Properties *)

(* Game.runStep() pulling queued commands from a JsInput: the host calls
   runStep once for every command it has queued *)

\* variant: the index is advanced before the command is read
JsInput_waitForInput_skips(cmds, index) ==
    IF index + 1 < Len(cmds)
    THEN [command |-> cmds[index + 2], currentIndex |-> index + 1]
    ELSE [command |-> NullCommand, currentIndex |-> index]

\* JsInput.waitForInput: the command and the new currentIndex
JsInput_waitForInput(cmds, index) ==
    IF index < Len(cmds)
    THEN [command |-> cmds[index + 1], currentIndex |-> index + 1]
    ELSE [command |-> NullCommand, currentIndex |-> index]

\* the two ways of ending: the FinishGame command and the terminate sentinel
\* (the string constant and the object form)
Enders == {Control(FinishGameCommandImpl), Command_FinishGame, FinishGameObject}

\* the queues [StartGame, LaunchBall x k, ender, StartGame] and
\* [StartGame, CauseLottery, ender, StartGame]
Scripts ==
    { <<Control(StartGame)>> \o mid \o <<e, Control(StartGame)>> :
        mid \in { Repeat(Control(LaunchBall), k) : k \in 0..MaxLaunches }
                  \cup { <<Control(CauseLottery)>> },
        e \in Enders }

InitScript ==
    /\ config \in RunBallsConfigs
    /\ probability \in Probabilities
    /\ state = Uninitialized
    /\ beforeState = Null
    /\ isSlotSpinning = FALSE
    /\ emitted = <<>>
    /\ step = NoStep
    /\ notified = FALSE
    /\ input \in [commands : Scripts, currentIndex : {0}, startHoleProbability : {<<0, 1>>}]
    /\ pc = "stepping"

\* one call of runStep()
RunStepJs ==
    /\ pc = "stepping"
    /\ input.currentIndex < Len(input.commands)
    /\ LET w == JsInput_waitForInput(input.commands, input.currentIndex)
       IN  \E rnd \in RandomInputsOf(w.command, state, probability) :
             LET g == runStepWithCommand(TheGame, w.command, config, probability, rnd)
             IN  /\ Effect(g, w.command)
                 /\ input' = [input EXCEPT !.currentIndex = w.currentIndex]
    /\ UNCHANGED <<config, probability, pc>>

NextScript == RunStepJs

SpecScript == InitScript /\ [][NextScript]_vars

----------------------------------------------------------------------------

(* Two sessions in a row: the queue [StartGame, x, FinishGame, StartGame,
   LaunchBall] pulled from a JsInput by runStep(), the presentation layer never
   calling setSlotSpinning *)

\* what the first session does: a lottery, a launch followed by a lottery, or
\* a launch alone
SessionBodies ==
    {Control(CauseLottery), Control(LaunchBallFlow(TRUE)), Control(LaunchBall)}

SessionScripts ==
    { <<Control(StartGame), x, Control(FinishGameCommandImpl),
        Control(StartGame), Control(LaunchBall)>> : x \in SessionBodies }

InitSession ==
    /\ config \in RunBallsConfigs
    /\ probability \in Probabilities
    /\ state = Uninitialized
    /\ beforeState = Null
    /\ isSlotSpinning = FALSE
    /\ emitted = <<>>
    /\ step = NoStep
    /\ notified = FALSE
    /\ input \in [commands : SessionScripts, currentIndex : {0},
                  startHoleProbability : {<<0, 1>>}]
    /\ pc = "stepping"

SpecSession == InitSession /\ [][NextScript]_vars

----------------------------------------------------------------------------

(* Game.run() as a loop of two steps, the call of runStep() and the test of
   its result, over either input collaborator of the repository *)

\* this.input.waitForInput() for the input collaborator in
UserInput_waitForInput(in, d) ==
    IF in.kind = "JsInput" THEN JsInput_waitForInput(in.commands, in.currentIndex)
    ELSE CLIInput_waitForInput(in.commands, in.currentIndex,
                               in.startHoleProbability, d)

LoopInputs ==
    [kind : {"CLIInput"}, commands : DemoLists, currentIndex : {0},
     startHoleProbability : Probs]
        \cup [kind : {"JsInput"}, commands : Scripts, currentIndex : {0},
              startHoleProbability : {<<0, 1>>}]

InitLoop ==
    /\ config \in RunBallsConfigs
    /\ probability \in Probabilities
    /\ state = Uninitialized
    /\ beforeState = Null
    /\ isSlotSpinning = FALSE
    /\ emitted = <<>>
    /\ step = NoStep
    /\ notified = FALSE
    /\ input \in LoopInputs
    /\ pc = "running"

\* this.runStep() inside the loop; an error leaves run()
LoopRunStep ==
    /\ pc = "running"
    /\ \E d \in Draws :
         LET w == UserInput_waitForInput(input, d)
         IN  \E rnd \in RandomInputsOf(w.command, state, probability) :
               LET g == runStepWithCommand(TheGame, w.command, config, probability, rnd)
               IN  /\ Effect(g, w.command)
                   /\ input' = [input EXCEPT !.currentIndex = w.currentIndex]
                   /\ pc' = IF g.result = "throw" THEN "raised" ELSE "test"
    /\ UNCHANGED <<config, probability>>

\* if (... === "break") break; otherwise the loop goes round
LoopTest ==
    /\ pc = "test"
    /\ pc' = IF step.result = "break" THEN "returned" ELSE "running"
    /\ UNCHANGED <<config, probability, state, beforeState, isSlotSpinning,
                   emitted, step, notified, input>>

NextLoop == LoopRunStep \/ LoopTest

\* the loop of run() keeps running as long as it can take a step
SpecLoop == InitLoop /\ [][NextLoop]_vars /\ WF_vars(NextLoop)

----------------------------------------------------------------------------

(* The construction of a Game from an arbitrary Config *)

\* values of a probability field: below 0, the two ends of the range, above 1
WideProbs == { <<0 - 1, 2>>, <<0, 1>>, <<1, 1>>, <<3, 2>> }

\* values of the fakeWin and fakeLose fields: below 0, inside, above 1
SideProbs == { <<0 - 1, 2>>, <<1, 2>>, <<3, 2>> }

WideSlotProbabilities == [win : WideProbs, fakeWin : SideProbs, fakeLose : SideProbs]

InitConfig ==
    /\ config \in [initBalls : (0 - 1)..MaxInitBalls,
                   incrementalBalls : {0}, incrementalRush : {0}]
    /\ probability \in [normal : WideSlotProbabilities, rush : WideSlotProbabilities,
                        rushContinue : WideSlotProbabilities,
                        rushContinueFn : {"decay"}]
    /\ state = Uninitialized
    /\ beforeState = Null
    /\ isSlotSpinning = FALSE
    /\ emitted = <<>>
    /\ step = NoStep
    /\ notified = FALSE
    /\ input = NoInput
    /\ pc = "constructing"

\* new Game(config, input, output); after a ConfigError there is no Game
Construct ==
    /\ pc = "constructing"
    /\ LET r == Game_constructor(config, probability)
       IN  IF IsThrow(r)
           THEN /\ pc' = "aborted"
                /\ step' = [op |-> "new Game", command |-> NullCommand,
                            result |-> "throw", error |-> r.error,
                            errors |-> r.errors,
                            stateAtCall |-> state, spinningAtCall |-> isSlotSpinning]
                /\ UNCHANGED <<state, isSlotSpinning>>
           ELSE /\ pc' = "idle"
                /\ step' = [op |-> "new Game", command |-> NullCommand,
                            result |-> "return", error |-> "none",
                            errors |-> <<>>,
                            stateAtCall |-> state, spinningAtCall |-> isSlotSpinning]
                /\ state' = r.state
                /\ isSlotSpinning' = r.isSlotSpinning
    /\ UNCHANGED <<config, probability, beforeState, emitted, notified, input>>

NextConfig == Construct

SpecConfig == InitConfig /\ [][NextConfig]_vars

----------------------------------------------------------------------------

(* The reel functions of a SlotProducer applied to arbitrary reel lengths,
   catalogs and outcomes of Math.random() *)

\* the values of Math.random() the reels are drawn from
SlotDraws == { <<k, SlotRandDen>> : k \in 0..(SlotRandDen - 1) }

Streams == [1..StreamLen -> SlotDraws]

\* arrays of symbols: those that hold no symbol twice and those that repeat
\* one symbol
Catalogs ==
    UNION { { c \in [1..n -> 1..MaxSymbol] :
                \/ \A i, j \in 1..n : i # j => c[i] # c[j]
                \/ \A i \in 1..n : c[i] = c[1] } : n \in 0..MaxSymbol }

\* the producers the constructor returns
SlotProducers ==
    { SlotProducer_constructor(length, choices) :
        length \in 0..MaxLength,
        choices \in { c \in Catalogs : ~IsThrow(SlotProducer_constructor(0, c)) } }

InitSlot ==
    /\ config \in {[initBalls |-> 1, incrementalBalls |-> 0, incrementalRush |-> 0]}
    /\ probability \in {[normal |-> MixedProbability, rush |-> MixedProbability,
                         rushContinue |-> MixedProbability, rushContinueFn |-> "decay"]}
    /\ state = Uninitialized
    /\ beforeState = Null
    /\ isSlotSpinning = FALSE
    /\ emitted = <<>>
    /\ step = NoStep
    /\ notified = FALSE
    /\ input \in { [producer |-> sp, rnd |-> rnd] : sp \in SlotProducers, rnd \in Streams }
    /\ pc = "slot"

\* step' records the call and the value it returns
Produced(name, lotteryResult, value) ==
    /\ pc = "slot"
    /\ step' = [op |-> name, lotteryResult |-> lotteryResult, value |-> value]
    /\ UNCHANGED <<config, probability, state, beforeState, isSlotSpinning, emitted,
                   notified, input, pc>>

ApplyProduceWin ==
    Produced("SlotProducer.produceWin", Null,
             produceWin(input.producer.length, input.producer.choices, input.rnd, 1))

ApplyProduceLose ==
    Produced("SlotProducer.produceLose", Null,
             produceLose(input.producer.length, input.producer.choices, input.rnd, 1))

ApplyProduceFakeLose ==
    Produced("SlotProducer.produceFakeLose", Null,
             produceFakeLose(input.producer.choices, input.rnd, 1))

ApplyProduce ==
    \E lotteryResult \in LotteryResults :
        Produced("SlotProducer.produce", lotteryResult,
                 produce(lotteryResult, input.producer.length, input.producer.choices,
                         input.rnd))

NextSlot == ApplyProduceWin \/ ApplyProduceLose \/ ApplyProduceFakeLose \/ ApplyProduce

SpecSlot == InitSlot /\ [][NextSlot]_vars

----------------------------------------------------------------------------

(* The methods of a Lottery applied to arbitrary probabilities and outcomes
   of Math.random() *)

\* the SlotProbability values of a valid Probability over 0.0, 0.5 and 1.0
SlotProbabilities == [win : Probs, fakeWin : Probs, fakeLose : Probs]

InitLottery ==
    /\ config \in {[initBalls |-> 1, incrementalBalls |-> 0, incrementalRush |-> 0]}
    /\ probability \in [normal : SlotProbabilities,
                        rush : { SlotProbability(win, <<1, 2>>, <<1, 2>>) : win \in Probs },
                        rushContinue : SlotProbabilities,
                        rushContinueFn : FnChoices]
    /\ state = Uninitialized
    /\ beforeState = Null
    /\ isSlotSpinning = FALSE
    /\ emitted = <<>>
    /\ step = NoStep
    /\ notified = FALSE
    /\ input = [probability |-> probability]
    /\ pc = "lottery"

\* step' records the call, the values of Math.random() it reads and the
\* value it returns or the error it throws
Drawn(name, n, d1, d2, value) ==
    /\ pc = "lottery"
    /\ step' = [op |-> name, n |-> n, d1 |-> d1, d2 |-> d2, value |-> value]
    /\ UNCHANGED <<config, probability, state, beforeState, isSlotSpinning, emitted,
                   notified, input, pc>>

ApplyLotteryNormal ==
    \E d1, d2 \in Draws :
        Drawn("Lottery.lotteryNormal", 0, d1, d2, lotteryNormal(probability, d1, d2))

ApplyLotteryRush ==
    \E d1, d2 \in Draws :
        Drawn("Lottery.lotteryRush", 0, d1, d2, lotteryRush(probability, d1, d2))

ApplyLotteryRushContinue ==
    \E n \in 1..MaxN, d1, d2 \in Draws :
        Drawn("Lottery.lotteryRushContinue", n, d1, d2,
              lotteryRushContinue(probability, n, d1, d2))

NextLottery == ApplyLotteryNormal \/ ApplyLotteryRush \/ ApplyLotteryRushContinue

SpecLottery == InitLottery /\ [][NextLottery]_vars

----------------------------------------------------------------------------

IsRunStep == step.op = "runStepWithCommand"

BlockingError == "Error: Cannot launch ball while slot is spinning"

LaunchBallCommands == {Control(LaunchBall), StringCommand("LaunchBall")}

LaunchCommands == LaunchBallCommands \cup {Control(LaunchBallFlow(b)) : b \in BOOLEAN}

CauseLotteryCommands == {Control(CauseLottery), StringCommand("CauseLottery")}

\* the last call delivered a first-stage lottery notification
CausedLottery ==
    \E i \in 1..Len(emitted) : emitted[i].kind \in {"lotteryNormal", "lotteryRush"}

DefaultNotification(before, after) ==
    [kind |-> "default", transition |-> Transition(before, after)]

\* C1: the numeric fields of every reachable game state are never negative
\* (balls >= 0 in Normal; balls >= 0, rushBalls >= 0 and n >= 0 in Rush), for
\* every Config accepted by validate().
C1_NonNegativeFields ==
    CASE state.type = "Normal" -> state.balls >= 0
      [] state.type = "Rush" ->
            state.balls >= 0 /\ state.rushBalls >= 0 /\ state.n >= 0
      [] OTHER -> TRUE

\* C2: after any execution of causeLottery, whatever its outcome, the spinning
\* flag is true; no step of the core sets a set flag back to false; and while
\* it is set every LaunchBall and LaunchBallFlow fails with the blocking error.
C2_SpinningPersists ==
    IsRunStep =>
        /\ (step.command \in CauseLotteryCommands \/ CausedLottery) => isSlotSpinning
        /\ step.spinningAtCall => isSlotSpinning
        /\ (step.spinningAtCall /\ step.command \in LaunchCommands) =>
                (step.result = "throw" /\ step.error = BlockingError)

\* a lottery that raised an error has set the flag all the same
C2_Witness ==
    /\ IsRunStep /\ CausedLottery /\ step.result = "throw"
    /\ ~step.spinningAtCall /\ isSlotSpinning

\* C3: LaunchBall with the spinning flag set fails with the blocking error in
\* every game state (Uninitialized too), leaving state and flag unchanged and
\* emitting nothing; with the flag clear the new state is
\* GameState.launchBall(state).
C3_LaunchBallGuard ==
    (IsRunStep /\ step.command \in LaunchBallCommands) =>
        IF step.spinningAtCall
        THEN /\ step.result = "throw" /\ step.error = BlockingError
             /\ state = step.stateAtCall /\ isSlotSpinning /\ emitted = <<>>
        ELSE LET r == GameState_launchBall(step.stateAtCall)
             IN  IF IsThrow(r)
                 THEN /\ step.result = "throw" /\ step.error = r.error
                      /\ state = step.stateAtCall
                 ELSE step.result = "continue" /\ state = r

C3_Witness ==
    /\ IsRunStep /\ step.command = Control(LaunchBall) /\ step.spinningAtCall
    /\ isUninitialized(step.stateAtCall) /\ step.error = BlockingError

\* C4: run() driven by a CLIInput over a list [s, l, ..., l, q], with initBalls
\* larger than the number of l, never raises an error.
C4_DemoRunNeverRaises ==
    (input.commands \in DemoLists
        /\ config.initBalls > CountOf(input.commands, "l")) => pc # "raised"

\* C5: whenever one command processed by runStepWithCommand changes the game
\* state from s to s', a default notification with (before = s, after = s') is
\* delivered.
C5_EveryTransitionNotified ==
    (IsRunStep /\ state # step.stateAtCall) =>
        \E i \in 1..Len(emitted) :
            emitted[i] = DefaultNotification(step.stateAtCall, state)

\* C6: every time the game state goes from Normal or Rush to Uninitialized, a
\* finishGame notification carrying the last active state is delivered.
C6_SessionEndNotified ==
    (IsRunStep /\ ~isUninitialized(step.stateAtCall) /\ isUninitialized(state)) =>
        \E i \in 1..Len(emitted) :
            emitted[i] = [kind |-> "finishGame", state |-> step.stateAtCall]

\* C7: in a default notification, before is null for the very first
\* notification and for no other one.
C7_BeforeNullOnlyFirst ==
    \A i \in 1..Len(emitted) :
        emitted[i].kind = "default" =>
            ((emitted[i].transition.before = Null) <=> ~notified)

Mnemonics == {"StartGame", "LaunchBall", "CauseLottery", "FinishGame"}

\* a command object or a recognised mnemonic: what a step can execute
IsCommand(command) ==
    \/ command.type = "Control"
    \/ command.type = "string" /\ command.value \in Mnemonics

\* C8: a command other than null and the terminate sentinel that executes
\* without error delivers exactly one default notification, after every other
\* notification of the command, with before the state when the command was
\* pulled and after the state when it completed.
C8_OneDefaultLast ==
    (IsRunStep /\ step.result = "continue" /\ IsCommand(step.command)) =>
        /\ Len(emitted) >= 1
        /\ emitted[Len(emitted)] = DefaultNotification(step.stateAtCall, state)
        /\ \A i \in 1..(Len(emitted) - 1) : emitted[i].kind # "default"

\* a LaunchBallFlow that launched and drew a lottery
C8_Witness ==
    /\ IsRunStep /\ step.command = Control(LaunchBallFlow(TRUE))
    /\ step.result = "continue" /\ CausedLottery /\ Len(emitted) >= 2
    /\ state # step.stateAtCall

\* C9: GameState.launchBall: Uninitialized fails with UninitializedError;
\* Normal(b), b > 1, gives Normal(b-1); Normal(1) gives Uninitialized;
\* Rush(b, rb, n), rb > 1, gives Rush(b, rb-1, n); Rush(b, 1, n) gives Normal(b).
C9_LaunchBallReference ==
    step.op = "GameState.launchBall" =>
        LET s == step.stateAtCall
        IN  /\ s.type = "Uninitialized" =>
                (step.result = "throw" /\ step.error = "UninitializedError")
            /\ (s.type = "Normal" /\ s.balls > 1) =>
                (step.result = "return"
                    /\ state = [type |-> "Normal", balls |-> s.balls - 1])
            /\ (s.type = "Normal" /\ s.balls = 1) =>
                (step.result = "return" /\ state = [type |-> "Uninitialized"])
            /\ (s.type = "Rush" /\ s.rushBalls > 1) =>
                (step.result = "return"
                    /\ state = [type |-> "Rush", balls |-> s.balls,
                                rushBalls |-> s.rushBalls - 1, n |-> s.n])
            /\ (s.type = "Rush" /\ s.rushBalls = 1) =>
                (step.result = "return"
                    /\ state = [type |-> "Normal", balls |-> s.balls])

C9_Witness ==
    /\ step.op = "GameState.launchBall" /\ step.stateAtCall.type = "Rush"
    /\ step.stateAtCall.rushBalls = 1 /\ state.type = "Normal"

\* C10: GameState.triggerRush: Normal(b) gives
\* Rush(b + incrementalBalls, incrementalRush, 1); Rush(b, rb, n) gives
\* Rush(b + incrementalBalls, rb + incrementalRush, n + 1).
C10_TriggerRushReference ==
    step.op = "GameState.triggerRush" =>
        LET s == step.stateAtCall
        IN  /\ s.type = "Normal" =>
                (step.result = "return"
                    /\ state = [type |-> "Rush",
                                balls |-> s.balls + config.incrementalBalls,
                                rushBalls |-> config.incrementalRush, n |-> 1])
            /\ s.type = "Rush" =>
                (step.result = "return"
                    /\ state = [type |-> "Rush",
                                balls |-> s.balls + config.incrementalBalls,
                                rushBalls |-> s.rushBalls + config.incrementalRush,
                                n |-> s.n + 1])

C10_Witness ==
    /\ step.op = "GameState.triggerRush" /\ step.stateAtCall.type = "Rush"
    /\ step.result = "return" /\ state.n = step.stateAtCall.n + 1
    /\ config.incrementalRush > 0 /\ config.incrementalBalls > 0

\* C11: GameState.incrementBalls adds incrementalBalls to balls and changes
\* nothing else: Normal(b) gives Normal(b + incrementalBalls), Rush(b, rb, n)
\* gives Rush(b + incrementalBalls, rb, n); on Uninitialized it fails.
C11_IncrementBallsReference ==
    step.op = "GameState.incrementBalls" =>
        LET s == step.stateAtCall
        IN  /\ s.type = "Uninitialized" =>
                (step.result = "throw" /\ step.error # "none" /\ state = s)
            /\ s.type = "Normal" =>
                (step.result = "return"
                    /\ state = [type |-> "Normal",
                                balls |-> s.balls + config.incrementalBalls])
            /\ s.type = "Rush" =>
                (step.result = "return"
                    /\ state = [type |-> "Rush",
                                balls |-> s.balls + config.incrementalBalls,
                                rushBalls |-> s.rushBalls, n |-> s.n])

C11_Witness ==
    /\ step.op = "GameState.incrementBalls" /\ step.stateAtCall.type = "Rush"
    /\ step.result = "return" /\ config.incrementalBalls > 0
    /\ state.balls = step.stateAtCall.balls + config.incrementalBalls
    /\ state.rushBalls = step.stateAtCall.rushBalls

StartGameCommands == {Control(StartGame), StringCommand("StartGame")}

\* C12: StartGame from Uninitialized sets the state to Normal(initBalls) and
\* notifies startGame(Normal(initBalls)) before the default notification;
\* from Normal or Rush it fails with AlreadyStartedError, leaves the state
\* unchanged and emits neither a startGame nor a default notification.
C12_StartGame ==
    (IsRunStep /\ step.command \in StartGameCommands) =>
        IF isUninitialized(step.stateAtCall)
        THEN /\ step.result = "continue"
             /\ state = [type |-> "Normal", balls |-> config.initBalls]
             /\ emitted = << [kind |-> "startGame", state |-> state],
                             DefaultNotification(step.stateAtCall, state) >>
        ELSE /\ step.result = "throw" /\ step.error = "AlreadyStartedError"
             /\ state = step.stateAtCall
             /\ \A i \in 1..Len(emitted) :
                    emitted[i].kind \notin {"startGame", "default"}

\* StartGame refused in the middle of a rush
C12_Witness ==
    /\ IsRunStep /\ step.command \in StartGameCommands
    /\ step.stateAtCall.type = "Rush" /\ step.error = "AlreadyStartedError"
    /\ state = step.stateAtCall /\ emitted = <<>>

\* C13: the FinishGame command executed from an active state s notifies
\* finishGame(s), s being the state before the reset, and sets the state to
\* Uninitialized; from Uninitialized it fails with UninitializedError, emits
\* nothing and leaves the state Uninitialized.
C13_FinishGame ==
    (IsRunStep /\ step.command = Control(FinishGameCommandImpl)) =>
        IF isUninitialized(step.stateAtCall)
        THEN /\ step.result = "throw" /\ step.error = "UninitializedError"
             /\ emitted = <<>>
             /\ isUninitialized(state)
        ELSE /\ step.result = "continue"
             /\ emitted = << [kind |-> "finishGame", state |-> step.stateAtCall],
                             DefaultNotification(step.stateAtCall, Uninitialized) >>
             /\ isUninitialized(state)

\* a rush ended by the FinishGame command
C13_Witness ==
    /\ IsRunStep /\ step.command = Control(FinishGameCommandImpl)
    /\ step.stateAtCall.type = "Rush" /\ isUninitialized(state)
    /\ emitted[1] = [kind |-> "finishGame", state |-> step.stateAtCall]

\* the game state when causeLottery began in the last call: LaunchBallFlow
\* launches a ball first
StateAtLottery ==
    IF step.command \in CauseLotteryCommands THEN step.stateAtCall
    ELSE GameState_launchBall(step.stateAtCall)

\* the last call delivered a continuation lottery notification
ContinuedLottery ==
    \E i \in 1..Len(emitted) : emitted[i].kind = "lotteryRushContinue"

\* C14: when the first draw of causeLottery (lotteryNormal outside Rush,
\* lotteryRush in Rush) is a Lose of either kind, causeLottery leaves the game
\* state as it was when it began and draws no continuation lottery.
C14_LoseKeepsState ==
    (IsRunStep /\ CausedLottery /\ ~isWin(emitted[1].result)) =>
        /\ emitted[1].kind =
              (IF isRush(StateAtLottery) THEN "lotteryRush" ELSE "lotteryNormal")
        /\ state = StateAtLottery
        /\ ~ContinuedLottery

\* a fake Lose drawn in Rush after a launch
C14_Witness ==
    /\ IsRunStep /\ step.command = Control(LaunchBallFlow(TRUE)) /\ CausedLottery
    /\ emitted[1].result = LotteryResult_Lose("FakeLose")
    /\ emitted[1].kind = "lotteryRush" /\ isRush(state)
    /\ state # step.stateAtCall

\* C15: from every Normal(b) with the spinning flag clear, LaunchBallFlow with
\* isLottery = true whose normal draw is a Win ends in
\* Rush(b - 1 + incrementalBalls, incrementalRush, 1).
C15_LaunchAndWinEntersRush ==
    (/\ IsRunStep /\ step.command = Control(LaunchBallFlow(TRUE))
     /\ step.stateAtCall.type = "Normal" /\ ~step.spinningAtCall
     /\ CausedLottery /\ emitted[1].kind = "lotteryNormal"
     /\ isWin(emitted[1].result)) =>
        state = [type |-> "Rush",
                 balls |-> step.stateAtCall.balls - 1 + config.incrementalBalls,
                 rushBalls |-> config.incrementalRush, n |-> 1]

\* C16: in Rush(b, rb, n), after a winning rush draw and a continuation draw
\* that succeeds, a continuation Win gives
\* Rush(b + incrementalBalls, rb + incrementalRush, n + 1) and a continuation
\* Lose gives Rush(b + incrementalBalls, rb, n): the state stays Rush and
\* rushBalls and n are not reset.
C16_RushContinuation ==
    (IsRunStep /\ ContinuedLottery) =>
        LET s == StateAtLottery
        IN  /\ isRush(s)
            /\ emitted[1].kind = "lotteryRush" /\ isWin(emitted[1].result)
            /\ emitted[2].kind = "lotteryRushContinue"
            /\ state = [type |-> "Rush",
                        balls |-> s.balls + config.incrementalBalls,
                        rushBalls |-> IF isWin(emitted[2].result)
                                      THEN s.rushBalls + config.incrementalRush
                                      ELSE s.rushBalls,
                        n |-> IF isWin(emitted[2].result) THEN s.n + 1 ELSE s.n]

\* a continuation Lose that awards balls and keeps the rush
C16_Witness ==
    /\ IsRunStep /\ ContinuedLottery /\ ~isWin(emitted[2].result)
    /\ isRush(state) /\ isRush(step.stateAtCall)
    /\ config.incrementalBalls > 0
    /\ state.balls = step.stateAtCall.balls + config.incrementalBalls
    /\ state.rushBalls >= 1 /\ state.n = step.stateAtCall.n

\* rushContinue.win x rushContinueFn(n) of the configured Probability
AdjustedWin(n) ==
    Mul(probability.rushContinue.win, rushContinueFn(probability.rushContinueFn, n))

\* C17: in Rush, when the rush draw is a Win and rushContinue.win x
\* rushContinueFn(n) exceeds 1, causeLottery does not raise: no
\* lotteryRushContinue notification is delivered, the game state is as it was
\* when causeLottery began, and the step returns continue.
C17_ProbabilityErrorSwallowed ==
    (/\ IsRunStep /\ CausedLottery
     /\ emitted[1].kind = "lotteryRush" /\ isWin(emitted[1].result)
     /\ Less(One, AdjustedWin(StateAtLottery.n))) =>
        /\ step.result = "continue" /\ step.error = "none"
        /\ ~ContinuedLottery
        /\ state = StateAtLottery
        /\ emitted[Len(emitted)] = DefaultNotification(step.stateAtCall, state)

\* the skipped continuation draw of a CauseLottery command in Rush
C17_Witness ==
    /\ IsRunStep /\ step.command = Control(CauseLottery)
    /\ isRush(step.stateAtCall) /\ isWin(emitted[1].result)
    /\ Less(One, AdjustedWin(step.stateAtCall.n))
    /\ Len(emitted) = 2 /\ state = step.stateAtCall /\ step.result = "continue"

\* the state a notification tells the output of: the state of startGame and
\* finishGame, the after state of default
NotifiedState(notification) ==
    IF notification.kind = "default" THEN notification.transition.after
    ELSE notification.state

\* the queue began with StartGame, k times LaunchBall and the FinishGame
\* command, and the last call of runStep executed that FinishGame command
RanLaunchScript(k) ==
    /\ IsRunStep /\ Len(input.commands) >= k + 2
    /\ input.currentIndex = k + 2
    /\ input.commands[1] = Control(StartGame)
    /\ \A i \in 2..(k + 1) : input.commands[i] = Control(LaunchBall)
    /\ input.commands[k + 2] = Control(FinishGameCommandImpl)

\* C18 (as stated): for initBalls >= 1 and 0 <= k < initBalls, the sequence
\* StartGame, k times LaunchBall, FinishGame yields a finishGame notification
\* carrying Normal(initBalls - k), and Normal(initBalls - k) is the final
\* state notified to the output.
C18_FinalNotifiedState ==
    \A k \in 0..MaxLaunches :
        (RanLaunchScript(k) /\ k < config.initBalls) =>
            /\ \E i \in 1..Len(emitted) :
                  emitted[i] = [kind |-> "finishGame",
                                state |-> [type |-> "Normal",
                                           balls |-> config.initBalls - k]]
            /\ Len(emitted) >= 1
            /\ NotifiedState(emitted[Len(emitted)]) =
                  [type |-> "Normal", balls |-> config.initBalls - k]

\* C18 (amended): the sequence yields exactly finishGame(Normal(initBalls - k))
\* followed by the default notification of the FinishGame command, whose
\* transition goes from Normal(initBalls - k) to Uninitialized.
C18_FinishCarriesLastActiveState ==
    \A k \in 0..MaxLaunches :
        (RanLaunchScript(k) /\ k < config.initBalls) =>
            LET last == [type |-> "Normal", balls |-> config.initBalls - k]
            IN  /\ step.result = "continue"
                /\ emitted = << [kind |-> "finishGame", state |-> last],
                                DefaultNotification(last, Uninitialized) >>
                /\ isUninitialized(state)

\* three balls launched out of four, then FinishGame
C18_Witness ==
    /\ RanLaunchScript(MaxLaunches) /\ config.initBalls = MaxLaunches + 1
    /\ Len(emitted) = 2 /\ emitted[1].kind = "finishGame"
    /\ emitted[1].state = [type |-> "Normal", balls |-> 1]

\* the game as it was when the last call of runStepWithCommand began
GameAtCall ==
    [beforeState |-> step.stateAtCall, state |-> step.stateAtCall,
     isSlotSpinning |-> step.spinningAtCall,
     out |-> <<>>, thrown |-> "none", result |-> "none"]

\* the last call ended as runStepWithCommand ends for the command on GameAtCall
\* under some values of Math.random()
SameEffectAs(command) ==
    \E rnd \in RandomInputs :
        LET g == runStepWithCommand(GameAtCall, command, config, probability, rnd)
        IN  /\ state = g.state /\ isSlotSpinning = g.isSlotSpinning
            /\ emitted = g.out
            /\ step.result = g.result /\ step.error = g.thrown

\* C19: every recognised string mnemonic is executed with the effect of the
\* corresponding Command.Control(instance) on state and notifications; in
\* particular the string "FinishGame" runs finish() and the step returns
\* continue.
C19_StringMnemonics ==
    (IsRunStep /\ step.command.type = "string" /\ step.command.value \in Mnemonics) =>
        SameEffectAs(Control(fromString(step.command.value)))

TerminateSentinels == {Command_FinishGame, FinishGameObject}

\* C20: the FinishGame command and the terminate sentinel have distinct
\* effects.  The FinishGame command ends the session, the step returns
\* continue, and a following StartGame starts a new session.  The terminate
\* sentinel makes runStep return break, emits nothing and leaves the game state
\* unchanged even when a session is active (a following StartGame then finds
\* the session still running).
C20_FinishVersusTerminate ==
    LET i == input.currentIndex
        cmds == input.commands
        fresh == [type |-> "Normal", balls |-> config.initBalls]
    IN  /\ (/\ IsRunStep /\ step.command = Control(FinishGameCommandImpl)
            /\ ~isUninitialized(step.stateAtCall)) =>
               /\ step.result = "continue" /\ isUninitialized(state)
               /\ emitted[1] = [kind |-> "finishGame", state |-> step.stateAtCall]
        /\ (IsRunStep /\ step.command \in TerminateSentinels) =>
               /\ step.result = "break" /\ emitted = <<>>
               /\ state = step.stateAtCall
               /\ isSlotSpinning = step.spinningAtCall
        /\ (IsRunStep /\ i = Len(cmds) /\ step.command = Control(StartGame)) =>
               IF cmds[i - 1] = Control(FinishGameCommandImpl)
               THEN /\ step.result = "continue" /\ state = fresh
                    /\ emitted[1] = [kind |-> "startGame", state |-> fresh]
               ELSE ~isUninitialized(step.stateAtCall) =>
                        /\ step.result = "throw"
                        /\ step.error = "AlreadyStartedError"
                        /\ state = step.stateAtCall

\* a session ended by the FinishGame command after a lottery, then a new
\* session started
C20_Witness ==
    /\ IsRunStep /\ input.currentIndex = Len(input.commands)
    /\ input.commands[2] = Control(CauseLottery)
    /\ input.commands[3] = Control(FinishGameCommandImpl)
    /\ step.command = Control(StartGame) /\ isUninitialized(step.stateAtCall)
    /\ state = [type |-> "Normal", balls |-> config.initBalls]
    /\ step.result = "continue"

\* the input collaborator has no more commands to supply
InputExhausted == input.currentIndex >= Len(input.commands)

\* C21: for each input collaborator (CLIInput, JsInput), once the input has no
\* more commands to supply, run() eventually returns.
C21_RunReturnsAtEndOfInput ==
    (pc = "running" /\ InputExhausted) ~> (pc = "returned")

\* the number of first-stage lottery notifications the last call delivered
FirstStageCount ==
    Cardinality({ i \in 1..Len(emitted) :
                    emitted[i].kind \in {"lotteryNormal", "lotteryRush"} })

\* C22: LaunchBallFlow launches one ball first and then causes exactly one
\* lottery iff isLottery is true and the launch succeeded; when the launch
\* fails (spinning flag set, or Uninitialized) no lottery is drawn, no lottery
\* notification is emitted and the spinning flag is not changed.
C22_LaunchBallFlow ==
    (IsRunStep /\ step.command.type = "Control"
        /\ step.command.command.kind = "LaunchBallFlow") =>
        LET isLottery == step.command.command.isLottery
            r == GameState_launchBall(step.stateAtCall)
        IN  IF step.spinningAtCall \/ IsThrow(r)
            THEN /\ step.result = "throw"
                 /\ step.error = (IF step.spinningAtCall THEN BlockingError
                                  ELSE r.error)
                 /\ emitted = <<>>
                 /\ isSlotSpinning = step.spinningAtCall
                 /\ state = step.stateAtCall
            ELSE /\ FirstStageCount = (IF isLottery THEN 1 ELSE 0)
                 /\ isSlotSpinning = isLottery
                 /\ ~isLottery => (state = r /\ step.result = "continue")
                 /\ isLottery =>
                       /\ emitted[1].kind =
                             (IF isRush(r) THEN "lotteryRush" ELSE "lotteryNormal")
                       /\ ~isWin(emitted[1].result) =>
                             (state = r /\ step.result = "continue")

\* the last launch of a rush followed by a normal lottery
C22_Witness ==
    /\ IsRunStep /\ step.command = Control(LaunchBallFlow(TRUE))
    /\ isRush(step.stateAtCall) /\ step.stateAtCall.rushBalls = 1
    /\ FirstStageCount = 1 /\ emitted[1].kind = "lotteryNormal"
    /\ step.result = "continue"

\* the probability x (a fraction with a positive denominator) lies outside [0, 1]
OutsideUnit(x) == x[1] < 0 \/ x[1] > x[2]

\* how many of normal, rush and rushContinue have the field outside [0, 1]
BadFieldCount(field) ==
    Cardinality({ k \in {"normal", "rush", "rushContinue"} :
                    OutsideUnit(probability[k][field]) })

BadInitBalls == IF config.initBalls < 1 THEN 1 ELSE 0

MessageCount(errors, message) ==
    Cardinality({ i \in 1..Len(errors) : errors[i] = message })

\* C23: constructing a Game aborts with ConfigError exactly when initBalls < 1
\* or one of the nine probabilities lies outside [0, 1]; the ConfigError lists
\* one message for every violated constraint, and no Game exists afterwards.
C23_ConstructionValidates ==
    step.op = "new Game" =>
        LET violated == BadInitBalls + BadFieldCount("win")
                           + BadFieldCount("fakeWin") + BadFieldCount("fakeLose")
        IN  /\ (pc = "aborted") <=> (violated > 0)
            /\ (pc = "aborted") =>
                  /\ step.result = "throw" /\ step.error = "ConfigError"
                  /\ Len(step.errors) = violated
                  /\ MessageCount(step.errors,
                        "initial balls must be greater than 0") = BadInitBalls
                  /\ MessageCount(step.errors,
                        "win probability must be between 0.0 and 1.0")
                        = BadFieldCount("win")
                  /\ MessageCount(step.errors,
                        "fake_win probability must be between 0.0 and 1.0")
                        = BadFieldCount("fakeWin")
                  /\ MessageCount(step.errors,
                        "fake_lose probability must be between 0.0 and 1.0")
                        = BadFieldCount("fakeLose")
            /\ (pc # "aborted") => (pc = "idle" /\ step.result = "return")

\* a ConfigError that reports the balls and a probability of every stage
C23_Witness ==
    /\ step.op = "new Game" /\ pc = "aborted" /\ config.initBalls = 0
    /\ Len(step.errors) = 4
    /\ OutsideUnit(probability.normal.win) /\ OutsideUnit(probability.rush.fakeWin)
    /\ OutsideUnit(probability.rushContinue.fakeLose)

(* The reels of a SlotProducer *)

Symbols(choices) == { choices[i] : i \in 1..Len(choices) }

AllIdentical(reel) == \A i, j \in 1..Len(reel) : reel[i] = reel[j]

\* length positions, all showing one symbol of the catalog
AllMatching(reel, length, choices) ==
    /\ Len(reel) = length
    /\ \E symbol \in Symbols(choices) : \A i \in 1..Len(reel) : reel[i] = symbol

\* the catalog holds no symbol twice
Distinct(choices) ==
    \A i, j \in 1..Len(choices) : i # j => choices[i] # choices[j]

\* the indices i and j of a catalog of n symbols are neighbours on the circle
CyclicallyAdjacent(i, j, n) == j = (i % n) + 1 \/ i = (j % n) + 1

\* [a, c, a] with a and c at neighbouring indices of the catalog and c # a
NearMiss(reel, choices) ==
    \E i, j \in 1..Len(choices) :
        /\ CyclicallyAdjacent(i, j, Len(choices))
        /\ choices[i] # choices[j]
        /\ reel = <<choices[i], choices[j], choices[i]>>

\* C24: for every reel length L, every catalog and every outcome of
\* Math.random(), produceWin returns exactly L symbols, all of them the same
\* symbol of the catalog.
C24_ProduceWinAllMatching ==
    step.op = "SlotProducer.produceWin"
        => AllMatching(step.value, input.producer.length, input.producer.choices)

\* produceWin has filled a reel of three positions with the last symbol of a
\* catalog of three
C24_Witness ==
    /\ step.op = "SlotProducer.produceWin"
    /\ input.producer.length = 3
    /\ input.producer.choices = <<1, 2, 3>>
    /\ step.value = <<3, 3, 3>>

\* the groups and counts produceLose has cut for the call recorded in step
TheCut ==
    produceLose_cut(input.producer.length, input.producer.choices, input.rnd, 1)

\* C25: for every reel length L >= 2, every catalog of at least two distinct
\* symbols and every outcome of Math.random(), produceLose returns exactly L
\* symbols of the catalog that are not all identical: the two groups of
\* symbols are non-empty and disjoint and each fills at least one position.
C25_ProduceLoseNeverMatches ==
    (/\ step.op = "SlotProducer.produceLose"
     /\ input.producer.length >= 2
     /\ Distinct(input.producer.choices))
        => /\ Len(step.value) = input.producer.length
           /\ \A i \in 1..Len(step.value) :
                step.value[i] \in Symbols(input.producer.choices)
           /\ ~AllIdentical(step.value)
           /\ TheCut.choices1 # <<>> /\ TheCut.choices2 # <<>>
           /\ Symbols(TheCut.choices1) \cap Symbols(TheCut.choices2) = {}
           /\ TheCut.cnt1 >= 1 /\ TheCut.cnt2 >= 1
           /\ TheCut.cnt1 + TheCut.cnt2 = input.producer.length

\* produceLose has cut a catalog of three into a group of two and a group of
\* one and filled three positions, two of them from the second group
C25_Witness ==
    /\ step.op = "SlotProducer.produceLose"
    /\ input.producer.length = 3
    /\ Distinct(input.producer.choices)
    /\ Len(TheCut.choices1) = 2
    /\ TheCut.cnt2 = 2
    /\ Len(step.value) = 3
    /\ ~AllIdentical(step.value)

\* C26: for every catalog of at least two distinct symbols (a catalog of
\* exactly two included), every configured reel length and every outcome of
\* Math.random(), produceFakeLose returns exactly three symbols [a, c, a],
\* a and c at cyclically adjacent indices of the catalog and c different
\* from a.
C26_ProduceFakeLoseNearMiss ==
    (step.op = "SlotProducer.produceFakeLose" /\ Distinct(input.producer.choices))
        => /\ Len(step.value) = 3
           /\ step.value[1] = step.value[3]
           /\ step.value[2] # step.value[1]
           /\ NearMiss(step.value, input.producer.choices)

\* produceFakeLose of a producer of reel length 2 over a catalog of exactly
\* two symbols has returned the three symbols [2, 1, 2]
C26_Witness ==
    /\ step.op = "SlotProducer.produceFakeLose"
    /\ input.producer.length = 2
    /\ input.producer.choices = <<1, 2>>
    /\ step.value = <<2, 1, 2>>

\* [a, c, a]: the outer symbols match and the middle one differs
IsNearMiss(reel) == Len(reel) = 3 /\ reel[1] = reel[3] /\ reel[2] # reel[1]

\* C27: SlotProducer.produce always returns a primary reel, and the bonus
\* reel is non-null exactly for Win/FakeWin: Win/Default gives (all-matching
\* reel, null), Win/FakeWin gives (near-miss reel, all-matching reel),
\* Lose/Default gives (non-matching reel, null) and Lose/FakeLose gives
\* (near-miss reel, null). The reels are those of a catalog of distinct
\* symbols; the non-matching reel is that of a reel length of at least 2.
C27_ProduceDispatch ==
    step.op = "SlotProducer.produce" =>
        LET result == step.lotteryResult
            length == input.producer.length
            choices == input.producer.choices
            primary == step.value[1]
            bonus == step.value[2]
            isFakeWin == result.type = "Win" /\ result.winType = "FakeWin"
        IN  /\ Len(step.value) = 2
            /\ (bonus # NoReel) <=> isFakeWin
            /\ isFakeWin => Len(bonus) = 1 /\ AllMatching(bonus[1], length, choices)
            /\ Distinct(choices) =>
                 CASE result.type = "Win" /\ result.winType = "Default" ->
                        AllMatching(primary, length, choices)
                   [] result.type = "Win" /\ result.winType = "FakeWin" ->
                        IsNearMiss(primary)
                   [] result.type = "Lose" /\ result.loseType = "Default" ->
                        length >= 2 => Len(primary) = length /\ ~AllIdentical(primary)
                   [] result.type = "Lose" /\ result.loseType = "FakeLose" ->
                        IsNearMiss(primary)

\* produce has rendered a fake win as the near-miss reel [1, 2, 1] followed
\* by a bonus reel of three matching symbols
C27_Witness ==
    /\ step.op = "SlotProducer.produce"
    /\ step.lotteryResult = LotteryResult_Win("FakeWin")
    /\ input.producer.length = 3
    /\ step.value[1] = <<1, 2, 1>>
    /\ step.value[2] = Reel(<<3, 3, 3>>)

(* The draws of a Lottery *)

\* the rationals a and b are the same number
Same(a, b) == a[1] * b[2] = b[1] * a[2]

\* the call recorded in step is a lottery over the SlotProbability it names
IsLotteryOver(name) == step.op = name

\* the SlotProbability lotteryNormal or lotteryRush hands to lottery
DrawnProbability ==
    IF step.op = "Lottery.lotteryNormal" THEN probability.normal ELSE probability.rush

\* C28: for all values of Math.random() in [0, 1), a lottery over a
\* SlotProbability with win = 1.0 results in Win and one with win = 0.0 in
\* Lose; a Win is a FakeWin only when the second draw is below fakeWin and a
\* Lose is a FakeLose only when the second draw is below fakeLose.
C28_LotteryExtremes ==
    (IsLotteryOver("Lottery.lotteryNormal") \/ IsLotteryOver("Lottery.lotteryRush")) =>
        /\ Same(DrawnProbability.win, One) => isWin(step.value)
        /\ Same(DrawnProbability.win, Zero) => ~isWin(step.value)
        /\ (isWin(step.value) /\ step.value.winType = "FakeWin")
              => Less(step.d2, DrawnProbability.fakeWin)
        /\ (~isWin(step.value) /\ step.value.loseType = "FakeLose")
              => Less(step.d2, DrawnProbability.fakeLose)

\* lotteryNormal over win = 0.0 has read a first draw of 0 and returned a
\* FakeLose on a second draw below fakeLose
C28_Witness ==
    /\ IsLotteryOver("Lottery.lotteryNormal")
    /\ Same(probability.normal.win, Zero)
    /\ step.d1 = <<0, RandDen>>
    /\ Less(step.d2, probability.normal.fakeLose)
    /\ step.value = LotteryResult_Lose("FakeLose")

\* the last call executed causeLottery: a CauseLottery command, or a
\* LaunchBallFlow with isLottery = true whose launch succeeded
ExecutedCauseLottery ==
    /\ IsRunStep
    /\ \/ step.command \in CauseLotteryCommands
       \/ /\ step.command = Control(LaunchBallFlow(TRUE))
          /\ ~step.spinningAtCall
          /\ ~IsThrow(GameState_launchBall(step.stateAtCall))

LotteryKinds == {"lotteryNormal", "lotteryRush", "lotteryRushContinue"}

\* the positions of the notifications of the given kinds in the last call
Positions(kinds) == { i \in 1..Len(emitted) : emitted[i].kind \in kinds }

\* C29: each execution of causeLottery emits exactly one first-stage lottery
\* notification, lotteryRush if the state at the draw is Rush and
\* lotteryNormal otherwise; lotteryRushContinue is emitted at most once and
\* only after a lotteryRush notification with result Win of the same
\* execution; every lottery notification of a command precedes the command's
\* default notification. A call that does not execute causeLottery emits no
\* lottery notification.
C29_LotteryNotifications ==
    IsRunStep =>
        /\ ~ExecutedCauseLottery => Positions(LotteryKinds) = {}
        /\ ExecutedCauseLottery =>
              /\ Cardinality(Positions({"lotteryNormal", "lotteryRush"})) = 1
              /\ emitted[1].kind =
                    (IF isRush(StateAtLottery) THEN "lotteryRush" ELSE "lotteryNormal")
              /\ Cardinality(Positions({"lotteryRushContinue"})) <= 1
              /\ \A j \in Positions({"lotteryRushContinue"}) :
                    \E i \in Positions({"lotteryRush"}) :
                        i < j /\ isWin(emitted[i].result)
        /\ \A i \in Positions(LotteryKinds), j \in Positions({"default"}) : i < j

\* a rush lottery won, its continuation lottery and the default notification,
\* in this order, delivered by one CauseLottery
C29_Witness ==
    /\ IsRunStep /\ step.command = Control(CauseLottery)
    /\ isRush(step.stateAtCall)
    /\ Len(emitted) = 3
    /\ emitted[1].kind = "lotteryRush" /\ isWin(emitted[1].result)
    /\ emitted[2].kind = "lotteryRushContinue"
    /\ emitted[3].kind = "default"

\* rushContinue.win x rushContinueFn(n) for the call recorded in step
TheAdjustedWin ==
    Mul(probability.rushContinue.win, rushContinueFn(probability.rushContinueFn, step.n))

\* C30: lotteryRushContinue(n) fails with ProbabilityError exactly when
\* adjustedWin = rushContinue.win x rushContinueFn(n) is greater than 1 (a
\* product equal to 1 or below 0 does not fail); otherwise it draws with
\* win = adjustedWin and the fakeWin and fakeLose of the rush-continuation
\* SlotProbability; the configured Probability is never modified.
C30_RushContinueAdjustedWin ==
    /\ probability = input.probability
    /\ step.op = "Lottery.lotteryRushContinue" =>
          /\ (step.value = Throw("ProbabilityError")) <=> Less(One, TheAdjustedWin)
          /\ ~Less(One, TheAdjustedWin) =>
                /\ isWin(step.value) <=> Less(step.d1, TheAdjustedWin)
                /\ isWin(step.value) =>
                      ((step.value.winType = "FakeWin")
                          <=> Less(step.d2, probability.rushContinue.fakeWin))
                /\ ~isWin(step.value) =>
                      ((step.value.loseType = "FakeLose")
                          <=> Less(step.d2, probability.rushContinue.fakeLose))

\* a product of exactly 1 (0.5 x 2) has not failed: the draw is a Win whose
\* sub-kind is decided by the configured fakeWin
C30_Witness ==
    /\ step.op = "Lottery.lotteryRushContinue"
    /\ probability.rushContinueFn = "double"
    /\ Same(TheAdjustedWin, One)
    /\ probability.rushContinue.fakeWin # probability.normal.fakeWin
    /\ step.value = LotteryResult_Win("FakeWin")

\* C31: when the input supplies no command (null) the step is a no-op:
\* runStepWithCommand returns continue, emits no notification and leaves the
\* game state and the spinning flag unchanged.
C31_NullIsNoOp ==
    (IsRunStep /\ step.command = NullCommand) =>
        /\ step.result = "continue" /\ step.error = "none"
        /\ emitted = <<>>
        /\ state = step.stateAtCall
        /\ isSlotSpinning = step.spinningAtCall

\* a step without a command in the middle of a rush, the reel spinning
C31_Witness ==
    /\ IsRunStep /\ step.command = NullCommand
    /\ isRush(state) /\ isSlotSpinning
    /\ step.result = "continue"

\* C32: a string command that is not a recognised mnemonic fails fast with a
\* generic error: runStepWithCommand raises, executes no command, emits no
\* notification and leaves the game state and the spinning flag unchanged.
C32_UnknownStringRaises ==
    (IsRunStep /\ step.command.type = "string"
        /\ step.command.value \notin Mnemonics) =>
        /\ step.result = "throw" /\ step.error = "Error: Unknown command"
        /\ emitted = <<>>
        /\ state = step.stateAtCall
        /\ isSlotSpinning = step.spinningAtCall

\* C33: in a LaunchBallFlow with isLottery = true the lottery mode is chosen
\* from the state after the launch: from Rush(b, 1, n) the launch yields
\* Normal(b) and the lottery is drawn with lotteryNormal (a Win starting a new
\* rush with n = 1), from Rush(b, rb, n) with rb > 1 it is drawn with
\* lotteryRush.
C33_ModeAfterLaunch ==
    (/\ IsRunStep /\ step.command = Control(LaunchBallFlow(TRUE))
     /\ isRush(step.stateAtCall) /\ ~step.spinningAtCall) =>
        LET s == step.stateAtCall
        IN  /\ s.rushBalls = 1 =>
                /\ emitted[1].kind = "lotteryNormal"
                /\ Positions({"lotteryRush", "lotteryRushContinue"}) = {}
                /\ state = IF isWin(emitted[1].result)
                           THEN Rush(s.balls + config.incrementalBalls,
                                     config.incrementalRush, 1)
                           ELSE Normal(s.balls)
            /\ s.rushBalls > 1 =>
                /\ emitted[1].kind = "lotteryRush"
                /\ Positions({"lotteryNormal"}) = {}
                /\ isRush(state)

\* the last ball of a rush in its second round is launched and the normal
\* lottery that follows is won: a new rush begins with n = 1
C33_Witness ==
    /\ IsRunStep /\ step.command = Control(LaunchBallFlow(TRUE))
    /\ isRush(step.stateAtCall) /\ ~step.spinningAtCall
    /\ step.stateAtCall.rushBalls = 1 /\ step.stateAtCall.n = 2
    /\ emitted[1].kind = "lotteryNormal" /\ isWin(emitted[1].result)
    /\ isRush(state) /\ state.n = 1

\* C34: causeLottery executed while the state is Uninitialized (directly, or
\* in a LaunchBallFlow whose launch spent the last ball) never starts a
\* session: the spinning flag is set and a lotteryNormal notification is
\* emitted; on Lose the state stays Uninitialized; on Win triggerRush raises a
\* generic error, the state stays Uninitialized and no default notification is
\* emitted for the command.
C34_LotteryWithoutSession ==
    (ExecutedCauseLottery /\ isUninitialized(StateAtLottery)) =>
        /\ isSlotSpinning
        /\ emitted[1].kind = "lotteryNormal"
        /\ Positions({"lotteryRush", "lotteryRushContinue", "startGame"}) = {}
        /\ isUninitialized(state)
        /\ IF isWin(emitted[1].result)
           THEN /\ step.result = "throw"
                /\ step.error = "Error: Cannot trigger rush in uninitialized state"
                /\ Positions({"default"}) = {}
           ELSE /\ step.result = "continue" /\ step.error = "none"

\* the launch of a LaunchBallFlow has spent the last ball and the lottery that
\* follows is won: triggerRush raises and the session is over
C34_Witness ==
    /\ ExecutedCauseLottery /\ step.command = Control(LaunchBallFlow(TRUE))
    /\ step.stateAtCall = Normal(1)
    /\ isWin(emitted[1].result)
    /\ step.result = "throw" /\ isUninitialized(state) /\ isSlotSpinning

\* the last call executed the i-th command of the queue
RanCommand(i) == IsRunStep /\ input.currentIndex = i

\* C35: start() and finish() leave the spinning flag unchanged, and so does a
\* session ending by ball exhaustion: if a lottery was caused in one session
\* and the flag was not cleared externally, then after FinishGame and
\* StartGame the first LaunchBall of the new session is rejected with the
\* blocking error.
C35_FlagSurvivesSessions ==
    /\ (IsRunStep /\ step.command \in {Control(StartGame), Control(FinishGameCommandImpl)})
          => isSlotSpinning = step.spinningAtCall
    /\ (IsRunStep /\ step.command = Control(LaunchBall)
          /\ ~isUninitialized(step.stateAtCall) /\ isUninitialized(state))
          => isSlotSpinning = step.spinningAtCall
    /\ (RanCommand(5) /\ input.commands[2] # Control(LaunchBall)) =>
          /\ step.command = Control(LaunchBall)
          /\ step.stateAtCall = Normal(config.initBalls)
          /\ step.spinningAtCall
          /\ step.result = "throw" /\ step.error = BlockingError
          /\ state = step.stateAtCall /\ emitted = <<>>

\* a lottery in the first session, FinishGame, StartGame, and the LaunchBall
\* of the second session is refused
C35_Witness ==
    /\ RanCommand(5) /\ input.commands[2] = Control(CauseLottery)
    /\ step.command = Control(LaunchBall)
    /\ step.stateAtCall = Normal(config.initBalls)
    /\ step.error = BlockingError

\* the last call drew a continuation lottery and won it
ContinuationWon ==
    \E i \in Positions({"lotteryRushContinue"}) : isWin(emitted[i].result)

\* C36: in every reachable Rush state n >= 1; every Rush state entered from
\* Normal has n = 1; while the state stays Rush n never decreases and changes
\* only by exactly +1 on a rush-continuation Win; LaunchBall in Rush never
\* changes n or balls.
C36_RushRounds ==
    /\ isRush(state) => state.n >= 1
    /\ (IsRunStep /\ isRush(state) /\ CausedLottery
          /\ StateAtLottery.type = "Normal") => state.n = 1
    /\ (IsRunStep /\ isRush(state) /\ isRush(step.stateAtCall)
          /\ Positions({"lotteryNormal"}) = {}) =>
            state.n = step.stateAtCall.n + (IF ContinuationWon THEN 1 ELSE 0)
    /\ (IsRunStep /\ step.command \in LaunchBallCommands
          /\ isRush(step.stateAtCall)) =>
            /\ state.balls = step.stateAtCall.balls
            /\ isRush(state) => state.n = step.stateAtCall.n

\* a rush in its second round after a continuation Win
C36_Witness ==
    /\ IsRunStep /\ isRush(step.stateAtCall) /\ isRush(state)
    /\ ContinuationWon
    /\ step.stateAtCall.n = 1 /\ state.n = 2

\* the tags of a and b, a change of the tag being one of the given edges
OnEdges(a, b, edges) == a.type = b.type \/ <<a.type, b.type>> \in edges

\* a launch moves Normal to Uninitialized only with balls = 1 and Rush to
\* Normal only with rushBalls = 1
LaunchEdge(a, b) ==
    /\ OnEdges(a, b, {<<"Normal", "Uninitialized">>, <<"Rush", "Normal">>})
    /\ (a.type = "Normal" /\ b.type = "Uninitialized") => a.balls = 1
    /\ (a.type = "Rush" /\ b.type = "Normal") => a.rushBalls = 1

\* a lottery moves Normal to Rush, and only on a Win
LotteryEdge(a, b) ==
    /\ OnEdges(a, b, {<<"Normal", "Rush">>})
    /\ a.type # b.type => isWin(emitted[1].result)

\* the kind of the GameCommand the last call executed ("none" if it executed
\* none)
ExecutedKind ==
    IF isTerminate(step.command) \/ isFalsy(step.command) THEN "none"
    ELSE IF step.command.type = "Control" THEN step.command.command.kind
    ELSE IF step.command.value \in Mnemonics THEN step.command.value
    ELSE "none"

\* C37: across any sequence of commands the state tag changes only along
\* Uninitialized -> Normal (StartGame), Normal -> Uninitialized (LaunchBall
\* with balls = 1, or FinishGame), Normal -> Rush (lottery Win), Rush -> Normal
\* (LaunchBall with rushBalls = 1) and Rush -> Uninitialized (FinishGame).
\* Rush is never entered from Uninitialized, a lottery never moves Rush to
\* Normal and a launch never moves Rush to Uninitialized.  The launch and the
\* lottery of a LaunchBallFlow are two steps along these edges.
C37_TagEdges ==
    IsRunStep =>
        CASE ExecutedKind = "StartGame" ->
                OnEdges(step.stateAtCall, state, {<<"Uninitialized", "Normal">>})
          [] ExecutedKind = "FinishGame" ->
                OnEdges(step.stateAtCall, state,
                        {<<"Normal", "Uninitialized">>, <<"Rush", "Uninitialized">>})
          [] ExecutedKind = "LaunchBall" -> LaunchEdge(step.stateAtCall, state)
          [] ExecutedKind = "CauseLottery" -> LotteryEdge(step.stateAtCall, state)
          [] ExecutedKind = "LaunchBallFlow" ->
                IF CausedLottery
                THEN /\ LaunchEdge(step.stateAtCall, StateAtLottery)
                     /\ LotteryEdge(StateAtLottery, state)
                ELSE LaunchEdge(step.stateAtCall, state)
          [] OTHER -> state.type = step.stateAtCall.type

\* the last ball of a rush has been launched: Rush to Normal
C37_Witness ==
    /\ IsRunStep /\ ExecutedKind = "LaunchBall"
    /\ isRush(step.stateAtCall) /\ step.stateAtCall.rushBalls = 1
    /\ state = Normal(step.stateAtCall.balls)

----------------------------------------------------------------------------

(* The game driven command by command, with a ledger of the session kept in
   input: the balls launched while in Normal and the awards of
   incrementalBalls since the last startGame notification *)

NoLedger == [launched |-> 0, awards |-> 0]

\* the ledger after a call that began in state s with the flag spinning and
\* ended as g: a launch made in Normal, a normal lottery drawn in Normal and
\* won, a continuation lottery drawn
Ledger(ledger, command, s, spinning, g) ==
    LET kind == command.command.kind
        launch == /\ kind \in {"LaunchBall", "LaunchBallFlow"}
                  /\ s.type = "Normal" /\ ~spinning
        atDraw == IF kind = "LaunchBallFlow" THEN GameState_launchBall(s) ELSE s
        wonNormal == \E i \in 1..Len(g.out) :
                        /\ g.out[i].kind = "lotteryNormal"
                        /\ isWin(g.out[i].result)
                        /\ atDraw.type = "Normal"
        continued == \E i \in 1..Len(g.out) : g.out[i].kind = "lotteryRushContinue"
        started == \E i \in 1..Len(g.out) : g.out[i].kind = "startGame"
    IN  IF started THEN NoLedger
        ELSE [launched |-> ledger.launched + (IF launch THEN 1 ELSE 0),
              awards |-> ledger.awards + (IF wonNormal THEN 1 ELSE 0)
                                       + (IF continued THEN 1 ELSE 0)]

InitAccount ==
    /\ config \in BallsConfigs
    /\ probability \in Probabilities
    /\ state = Uninitialized
    /\ beforeState = Null
    /\ isSlotSpinning = FALSE
    /\ emitted = <<>>
    /\ step = NoStep
    /\ notified = FALSE
    /\ input = NoLedger
    /\ pc = "idle"

RunStepCounted ==
    /\ pc = "idle"
    /\ \E command \in {Control(c) : c \in GameCommands} :
         \E rnd \in RandomInputsOf(command, state, probability) :
           LET g == runStepWithCommand(TheGame, command, config, probability, rnd)
           IN  /\ InBounds(g.state)
               /\ Effect(g, command)
               /\ input' = Ledger(input, command, state, isSlotSpinning, g)
               /\ input'.awards <= MaxAwards
    /\ UNCHANGED <<config, probability, pc>>

NextAccount == RunStepCounted \/ SetSlotSpinning

SpecAccount == InitAccount /\ [][NextAccount]_vars

\* C38: ball accounting within one session: in every reachable active state
\* balls = initBalls - (balls launched while in Normal) + incrementalBalls x
\* (lottery Wins drawn in Normal + rush Wins whose continuation draw was made,
\* won or lost); a rush Win whose continuation raised ProbabilityError and
\* every first-stage Lose award nothing, and balls launched in Rush cost none.
C38_BallAccounting ==
    ~isUninitialized(state) =>
        state.balls = config.initBalls - input.launched
                        + config.incrementalBalls * input.awards

\* a session that has won a rush, been awarded balls and launched one of them
\* in Normal after the rush
C38_Witness ==
    /\ state.type = "Normal"
    /\ input.launched = 1 /\ input.awards = 2
    /\ config.incrementalBalls = 1
    /\ state.balls = 2

----------------------------------------------------------------------------

(* A session played with arbitrary commands and then, from some active state
   on, driven by LaunchBall commands only, the spinning flag cleared *)

\* A negative rushBalls only moves away from 0, so every debt of
\* MaxRushDebt or more is kept as MaxRushDebt.
Saturate(s) ==
    IF s.type = "Rush" /\ s.rushBalls < 0 - MaxRushDebt
    THEN Rush(s.balls, 0 - MaxRushDebt, s.n)
    ELSE s

\* input counts the launches of the second phase, modulo 2
InitLaunch ==
    /\ config \in BallsConfigs
    /\ probability \in Probabilities
    /\ state = Uninitialized
    /\ beforeState = Null
    /\ isSlotSpinning = FALSE
    /\ emitted = <<>>
    /\ step = NoStep
    /\ notified = FALSE
    /\ input = [launches |-> 0]
    /\ pc = "idle"

\* the presentation layer stops the reel and only launches from now on
BeginLaunching ==
    /\ pc = "idle"
    /\ ~isUninitialized(state)
    /\ pc' = "launching"
    /\ isSlotSpinning' = setSlotSpinning(TheGame, FALSE).isSlotSpinning
    /\ step' = [op |-> "setSlotSpinning", command |-> NullCommand,
                result |-> "none", error |-> "none",
                stateAtCall |-> state, spinningAtCall |-> isSlotSpinning]
    /\ emitted' = <<>>
    /\ notified' = (notified \/ HasDefault(emitted))
    /\ UNCHANGED <<config, probability, state, beforeState, input>>

LaunchOnly ==
    /\ pc = "launching"
    /\ ~isUninitialized(state)
    /\ LET g == runStepWithCommand(TheGame, Control(LaunchBall), config, probability,
                                   NoRandom)
       IN  Effect([g EXCEPT !.state = Saturate(g.state)], Control(LaunchBall))
    /\ input' = [launches |-> (input.launches + 1) % 2]
    /\ UNCHANGED <<config, probability, pc>>

NextLaunch == RunStepWithCommand \/ SetSlotSpinning \/ BeginLaunching \/ LaunchOnly

SpecLaunch == InitLaunch /\ [][NextLaunch]_vars /\ WF_vars(LaunchOnly)

\* C39: for every Config accepted by validation and every reachable active
\* state, if from then on only LaunchBall commands are executed (no lottery,
\* spinning flag cleared), the session eventually ends: Rush reaches Normal and
\* Normal reaches Uninitialized after finitely many launches.
C39_LaunchingEndsSession ==
    (pc = "launching") ~> isUninitialized(state)

----------------------------------------------------------------------------

(* THE BUNDLE: the JavaScript build of the game logic that server.ts carries
   ("// src/pachislo.ts").  GameState, Lottery.lottery, lotteryNormal,
   lotteryRush, lotteryRushContinue, produceWin, produceLose, start, finish,
   launchBall, setSlotSpinning and the command classes of the bundle read as
   those of the source, and the operators above stand for them; what the
   bundle does in its own way is translated below. *)

\* the symbols of the bundle's SlotProducer
bundle_SlotChoices == <<1, 2, 3, 4, 5, 6, 7, 8>>

\* SlotProducer.produceFakeLose of the bundle
bundle_produceFakeLose(choices, rnd, k) ==
    LET choiceIndex == FloorMul(At(rnd, k), Len(choices))
        shifted0 == (choiceIndex
                     + (IF Less(At(rnd, k + 1), <<1, 2>>) THEN -1 ELSE 1)
                     + Len(choices)) % Len(choices)
        shifted == IF shifted0 = choiceIndex THEN (shifted0 + 1) % Len(choices)
                   ELSE shifted0
    IN  <<choices[choiceIndex + 1], choices[shifted + 1], choices[choiceIndex + 1]>>

\* SlotProducer.produce of the bundle
bundle_produce(lotteryResult, length, choices, rnd) ==
    CASE lotteryResult.type = "Win" /\ lotteryResult.winType = "Default" ->
            <<produceWin(length, choices, rnd, 1), NoReel>>
      [] lotteryResult.type = "Win" /\ lotteryResult.winType = "FakeWin" ->
            <<bundle_produceFakeLose(choices, rnd, 1),
              Reel(produceWin(length, choices, rnd, 1 + fakeLoseDraws))>>
      [] lotteryResult.type = "Lose" /\ lotteryResult.loseType = "Default" ->
            <<produceLose(length, choices, rnd, 1), NoReel>>
      [] lotteryResult.type = "Lose" /\ lotteryResult.loseType = "FakeLose" ->
            <<bundle_produceFakeLose(choices, rnd, 1), NoReel>>

\* the reels of each lottery result on ReelStream, computed once
bundle_SlotTable ==
    [result \in LotteryResults |->
        bundle_produce(result, SlotLength, bundle_SlotChoices, ReelStream)]

\* this.slotProducer.produce(result) in the bundle
bundle_slotProducer_produce(result, rnd) ==
    IF rnd = ReelStream THEN bundle_SlotTable[result]
    ELSE bundle_produce(result, SlotLength, bundle_SlotChoices, rnd)

\* new Probability(normal, intoRush, rush, rushContinue, rushContinueFn) of the
\* bundle, the other four fields being those of the source's Probability p
bundle_Probability(p, intoRush) ==
    [normal |-> p.normal, intoRush |-> intoRush, rush |-> p.rush,
     rushContinue |-> p.rushContinue, rushContinueFn |-> p.rushContinueFn]

\* Lottery.lotteryIntoRush of the bundle
bundle_lotteryIntoRush(p, d1, d2) == lottery(p.intoRush, d1, d2)

\* Game.causeLottery of the bundle, a first Win outside Rush: a second lottery
\* decides between the rush and a ball award
bundle_causeLottery_intoRush(g, c, p, rnd) ==
    LET intoRushResult == bundle_lotteryIntoRush(p, rnd.c1, rnd.c2)
        g1 == notify(g, [kind |-> "lotteryIntoRush",
                         result |-> intoRushResult,
                         slot |-> bundle_slotProducer_produce(intoRushResult, rnd.cslot)])
    IN  IF isWin(intoRushResult)
        THEN assign(g1, GameState_triggerRush(g1.state, c))
        ELSE assign(g1, GameState_incrementBalls(g1.state, c))

\* Game.causeLottery of the bundle, the try block
bundle_causeLottery_continue(g, continueResult, c, rnd) ==
    IF IsThrow(continueResult) THEN g
    ELSE raise(causeLottery_award(
                   notify(g, [kind |-> "lotteryRushContinue",
                              result |-> continueResult,
                              slot |-> bundle_slotProducer_produce(continueResult,
                                                                   rnd.cslot)]),
                   continueResult, c),
               "none")

\* Game.causeLottery of the bundle: the draws after the first reel (c1, c2,
\* cslot) are read by the second lottery, whichever it is
bundle_Game_causeLottery(g, c, p, rnd) ==
    LET inRush == isRush(g.state)
        result == IF inRush THEN lotteryRush(p, rnd.d1, rnd.d2)
                  ELSE lotteryNormal(p, rnd.d1, rnd.d2)
        g1 == notify(setSlotSpinning(g, TRUE),
                     [kind |-> IF inRush THEN "lotteryRush" ELSE "lotteryNormal",
                      result |-> result,
                      slot |-> bundle_slotProducer_produce(result, rnd.slot)])
    IN  IF ~isWin(result) THEN g1
        ELSE IF g1.state.type # "Rush" THEN bundle_causeLottery_intoRush(g1, c, p, rnd)
        ELSE bundle_causeLottery_continue(
                 g1, lotteryRushContinue(p, g1.state.n, rnd.c1, rnd.c2), c, rnd)

\* GameCommand.execute in the bundle
bundle_execute(command, g, c, p, rnd) ==
    CASE command.kind = "LaunchBall" -> Game_launchBall(g)
      [] command.kind = "CauseLottery" -> bundle_Game_causeLottery(g, c, p, rnd)
      [] command.kind = "StartGame" -> Game_start(g, c)
      [] command.kind = "FinishGame" -> Game_finish(g)
      [] command.kind = "LaunchBallFlow" ->
            LET g1 == Game_launchBall(g)
            IN  IF g1.thrown # "none" THEN g1
                ELSE IF command.isLottery THEN bundle_Game_causeLottery(g1, c, p, rnd)
                ELSE g1

\* Game.runStepWithCommand of the bundle: no test for the terminate sentinel;
\* an object that is not a Control command is executed as a GameCommand, and
\* the terminate object has no execute method (TypeError)
bundle_runStepWithCommand(g0, command, c, p, rnd) ==
    LET g == saveBeforeState(g0)
    IN  IF isFalsy(command) THEN [g EXCEPT !.result = "continue"]
        ELSE IF command.type = "FinishGame"
        THEN [raise(g, "TypeError") EXCEPT !.result = "throw"]
        ELSE LET controlCommand ==
                    IF command.type = "Control" THEN command.command
                    ELSE fromString(command.value)
             IN  IF controlCommand.kind # "Unknown"
                 THEN runStep_finish(bundle_execute(controlCommand, g, c, p, rnd))
                 ELSE [raise(g, "Error: Unknown command") EXCEPT !.result = "throw"]

(* The source's game and the bundle's game, built from the same Config and
   given the same commands and the same values of Math.random(); input holds
   the bundle's Game object and the intoRush SlotProbability its Probability
   takes besides. *)

NewBundleGame ==
    [beforeState |-> Null, state |-> Uninitialized, isSlotSpinning |-> FALSE,
     out |-> <<>>, thrown |-> "none", result |-> "none"]

InitBundle ==
    /\ config \in BallsConfigs
    /\ probability \in Probabilities
    /\ state = Uninitialized
    /\ beforeState = Null
    /\ isSlotSpinning = FALSE
    /\ emitted = <<>>
    /\ step = NoStep
    /\ notified = FALSE
    /\ input = [intoRush |-> MixedProbability, game |-> NewBundleGame]
    /\ pc = "idle"

\* the bundle's Game object as a call finds it
TheBundleGame ==
    [input.game EXCEPT !.out = <<>>, !.thrown = "none", !.result = "none"]

\* The draws a command may read in either game: the draws after the first reel
\* are read only after a winning first draw (draws that are not read are fixed).
RandomInputsOfBoth(command, p) ==
    IF ~drawsLottery(command) THEN {NoRandom}
    ELSE { rnd \in RandomInputs :
             \/ Less(rnd.d1, p.normal.win)
             \/ Less(rnd.d1, p.rush.win)
             \/ /\ rnd.c1 = NoRandom.c1 /\ rnd.c2 = NoRandom.c2
                /\ rnd.cslot = NoRandom.cslot }

\* the same command and the same draws given to both games
RunStepOfBoth ==
    /\ pc = "idle"
    /\ \E command \in Commands :
         \E rnd \in RandomInputsOfBoth(command, probability) :
            LET g == runStepWithCommand(TheGame, command, config, probability, rnd)
                b == bundle_runStepWithCommand(
                         TheBundleGame, command, config,
                         bundle_Probability(probability, input.intoRush), rnd)
            IN  /\ InBounds(g.state)
                /\ InBounds(b.state)
                /\ Effect(g, command)
                /\ input' = [input EXCEPT !.game = b]
    /\ UNCHANGED <<config, probability, pc>>

\* the presentation layer calls setSlotSpinning on both games
SetSlotSpinningOfBoth ==
    /\ pc = "idle"
    /\ \E spinning \in BOOLEAN :
         /\ isSlotSpinning' = setSlotSpinning(TheGame, spinning).isSlotSpinning
         /\ input' = [input EXCEPT !.game = setSlotSpinning(TheBundleGame, spinning)]
         /\ step' = [op |-> "setSlotSpinning", command |-> NullCommand,
                     result |-> "none", error |-> "none",
                     stateAtCall |-> state, spinningAtCall |-> isSlotSpinning]
    /\ emitted' = <<>>
    /\ notified' = (notified \/ HasDefault(emitted))
    /\ UNCHANGED <<config, probability, state, beforeState, pc>>

NextBundle == RunStepOfBoth \/ SetSlotSpinningOfBoth

SpecBundle == InitBundle /\ [][NextBundle]_vars

\* C40: the bundled game logic behaves like the TypeScript source: for the
\* same command sequence and the same draw outcomes, runStepWithCommand of the
\* bundle and of the source return the same StepResult, reach the same game
\* state and emit the same notifications.
C40_BundleBehavesLikeSource ==
    step.op = "runStepWithCommand" =>
        /\ input.game.result = step.result
        /\ input.game.state = state
        /\ input.game.out = emitted

====
